---- MODULE Spec2Model ----
(***************************************************************************)
(* State-machine model of the storefront's overlay coordinator (Aside),    *)
(* its Escape-key listeners, the predictive-search fetcher wiring and the  *)
(* add-to-cart button.  One action per event handler; every action covers  *)
(* the handler, the React re-render it causes and the effects that the     *)
(* commit runs.                                                            *)
(***************************************************************************)
EXTENDS Integers, FiniteSets, Sequences, TLC

VARIABLES
    type,        \* AsideProvider's useState value (Aside.tsx:107)
    closeId,     \* identity of the `close` closure of the latest provider render
    menu,        \* header.menu && header.shop.primaryDomain?.url is truthy
    effects,     \* per Aside: the live useEffect instance (its deps), if any
    listeners,   \* keydown listeners the Asides have attached to document
    fetchers,    \* the router's keyed fetchers: key -> state, formData q, data
    requests,    \* predictive-search requests whose response has not arrived
    inputValue,  \* value of the predictive search <input> in the search Aside
    focus,       \* which search input has focus: "none", "aside" or "page"
    searchForm,  \* the /search route's SearchForm is mounted
    cartState,   \* state of the add-to-cart CartForm fetcher
    cartSent,    \* LinesAdd submissions started since that fetcher was last idle
    lastCall,    \* most recent coordinator call (history)
    escape,      \* the most recent step, when it was an Escape keydown (history)
    submitted,   \* q of the most recent fetchResults call, and whether a
                 \* superseded response came in after the live one (history)
    hook,        \* input and outcome of the most recent useAside() call
    layout,      \* PageLayout's props: header menu, footer, the shop's domains
    page,        \* the menus as rendered: header, mobile menu panel, footer
    cart,        \* the confirmed cart the layout's cart promise resolved to
    pending,     \* the cart forms' intents in flight, in submission order
    appliedGiftCardCodes,  \* CartGiftCard's useRef list of applied codes
    giftForms,   \* the fetchers of the gift card apply and remove forms
    giftLog,     \* the gift card codes submitted so far, and the last gift
                 \* card submission: "apply" or "remove" (history)
    term,        \* term.current, the useRef of usePredictiveSearch
    navigation,  \* where the most recent step navigated to, if it did (history)
    catalog,     \* the search result nodes and the product price the loaders
                 \* returned
    listing      \* what is rendered of them

vars == <<type, closeId, menu, effects, listeners, fetchers, requests,
          inputValue, focus, searchForm, cartState, cartSent, lastCall,
          escape, submitted, hook, layout, page, cart, pending,
          appliedGiftCardCodes, giftForms, giftLog, term, navigation,
          catalog, listing>>

\* The program's own state, without the history variables.
progVars == <<type, closeId, menu, effects, listeners, fetchers, requests,
              inputValue, focus, searchForm, cartState, cartSent, layout,
              page, cart, pending, appliedGiftCardCodes, giftForms, term,
              catalog, listing>>

\* The menus: PageLayout's props and what is rendered of them.
menuVars == <<layout, page>>

\* The cart view besides the add-to-cart fetcher: the confirmed cart and the
\* line forms' intents.
cartViewVars == <<cart, pending>>

\* The gift card form.
giftVars == <<appliedGiftCardCodes, giftForms, giftLog>>

\* The search results and prices.
listingVars == <<catalog, listing>>

\* Everything outside of the cart view.
shellVars == <<type, closeId, menu, effects, listeners, fetchers, requests,
               inputValue, focus, searchForm, lastCall, submitted, layout,
               page>>

----------------------------------------------------------------------------
\* Bounds of the model.

\* Distinct identities kept for the `close` closures; only the closures of two
\* consecutive renders are ever compared.
NumCloseIds == 2

\* Predictive-search requests (live or superseded) awaiting a response.
MaxInflight == 2

\* LinesAdd submissions counted while the cart fetcher is busy.
MaxCartSent == 2

\* The largest quantity of a line of a confirmed cart, and the quantity up to
\* which the increase control is used.
MaxQuantity == 2

\* Gift card apply submissions.
MaxApplies == 3

----------------------------------------------------------------------------
\* Types.

AsideType == {"search", "cart", "mobile", "closed"}

\* The three <Aside type=...> elements PageLayout can render.
Asides == {"cart", "search", "mobile"}

\* Values the user gives the predictive search input: empty and not.
Queries == {"", "a"}

\* The keys of a keydown event: Escape, and k with or without the meta key.
Keys == {"Escape", "k"}

\* No query has been submitted yet.
NoQuery == "(none)"

\* The most recent step was no Escape keydown.
NoEscape == [pressed |-> FALSE, before |-> "closed", calls |-> 0]

\* The most recent step navigated nowhere.
NoNavigation == <<>>

Variants == {"none", "available", "soldout"}

DisabledProps == {"undefined", "true", "false"}

----------------------------------------------------------------------------
\* AsideContext and useAside (Aside.tsx:97-138).

\* createContext<AsideContextValue | null>(null): what a consumer outside of
\* every provider reads.
AsideContext == [provided |-> FALSE, type |-> "closed", close |-> 0]

\* The value AsideProvider hands to its consumers on a render.
AsideProvider(t, c) == [provided |-> TRUE, type |-> t, close |-> c]

MissingProviderMessage ==
    <<"useAside", "must", "be", "used", "within", "an", "AsideProvider">>

\* An outcome that carries no value.
NoValue == "(none)"

\* Variant: a useAside that hands on whatever the context holds.
useAside_returnsDefault(aside) ==
    [kind |-> "ok", message |-> <<>>, value |-> aside.type]

\* useAside(): throws when the context value is null, else returns it.
useAside(aside) ==
    IF ~aside.provided
    THEN [kind |-> "error", message |-> MissingProviderMessage,
          value |-> NoValue]
    ELSE [kind |-> "ok", message |-> <<>>, value |-> aside.type]

----------------------------------------------------------------------------
\* Rendering of the Asides and their Escape-listener effect (Aside.tsx:45-69).

\* The Asides PageLayout mounts: cart and search always, mobile only when the
\* header has a menu and a primary-domain URL.
Mounted(m) == {"cart", "search"} \cup (IF m THEN {"mobile"} ELSE {})

\* const expanded = type === activeType
expanded(a, activeType) == a = activeType

NoEffect == [live |-> FALSE, close |-> 0, expanded |-> FALSE]

\* A provider render makes a new `close` closure.  setType with the current
\* value, and an unchanged header, cause no render.
RenderedCloseId(t, m, force) ==
    IF t # type \/ m # menu \/ force
    THEN (closeId + 1) % NumCloseIds
    ELSE closeId

\* The effect instance of Aside a after the commit: none when unmounted, else
\* the one whose deps are [close, expanded].
EffectAfter(a, t, c, m) ==
    IF a \in Mounted(m)
    THEN [live |-> TRUE, close |-> c, expanded |-> expanded(a, t)]
    ELSE NoEffect

\* The effect of Aside a is cleaned up or run when its deps changed, when it
\* mounts and when it unmounts.
EffectChanged(a, t, c, m) == EffectAfter(a, t, c, m) # effects[a]

\* Variant: a cleanup that aborts nothing.
Aborted_never(t, c, m) == {}

\* return () => abortController.abort(): the listeners removed by the cleanups
\* of this commit.
Aborted(t, c, m) ==
    { [owner |-> a, close |-> effects[a].close] :
        a \in { b \in Asides : /\ effects[b].live
                               /\ effects[b].expanded
                               /\ EffectChanged(b, t, c, m) } }

\* Variant: an effect that attaches its listener whether expanded or not.
Added_always(t, c, m) ==
    { [owner |-> a, close |-> c] :
        a \in { b \in Mounted(m) : EffectChanged(b, t, c, m) } }

\* if (expanded) document.addEventListener('keydown', handler, {signal})
Added(t, c, m) ==
    { [owner |-> a, close |-> c] :
        a \in { b \in Mounted(m) : /\ EffectChanged(b, t, c, m)
                                   /\ expanded(b, t) } }

\* Focus fixup: the search Aside's input cannot keep focus once its overlay is
\* hidden (visibility: hidden unless .expanded).
FocusAfter(f, t) == IF f = "aside" /\ t # "search" THEN "none" ELSE f

\* One commit: the provider state, the Asides' effects and the listeners.
Render(t, m, force) ==
    LET c == RenderedCloseId(t, m, force) IN
    /\ type' = t
    /\ menu' = m
    /\ closeId' = c
    /\ effects' = [a \in Asides |-> EffectAfter(a, t, c, m)]
    /\ listeners' = (listeners \ Aborted(t, c, m)) \cup Added(t, c, m)

\* Every render ends with the consumers reading the context inside the provider.
Consumers == hook' = [ctx |-> AsideProvider(type', closeId'),
                      out |-> useAside(AsideProvider(type', closeId'))]

----------------------------------------------------------------------------
\* AsideProvider's operations (Aside.tsx:106-122).

setType(v) == Render(v, menu, FALSE)

\* The record of a coordinator call; `again` says that it repeats the call
\* before it.
Call(op, arg) ==
    [op |-> op, arg |-> arg, again |-> lastCall.op = op /\ lastCall.arg = arg]

\* Variant: an open that closes the panel it is asked to open when that panel
\* is the active one.
open_toggles(mode) ==
    /\ setType(IF type = mode THEN "closed" ELSE mode)
    /\ lastCall' = Call("open", mode)

\* open: setType
open(mode) ==
    /\ setType(mode)
    /\ lastCall' = Call("open", mode)

\* close: () => setType('closed')
close ==
    /\ setType("closed")
    /\ lastCall' = Call("close", "closed")

----------------------------------------------------------------------------
\* The predictive-search fetcher (SearchFormPredictive.tsx:54-98,
\* SearchResultsPredictive.tsx:317-340) and the router's keyed fetchers.

\* useFetcher({key: 'search'}) in SearchFormPredictive
FormFetcherKey == "search"

\* Variant: the results read a fetcher under a key of their own.
ResultsFetcherKey_other == "results"

\* useFetcher({key: 'search'}) in usePredictiveSearch
ResultsFetcherKey == "search"

FetcherKeys == {FormFetcherKey, ResultsFetcherKey}

NoData == [present |-> FALSE, items |-> {}, total |-> 0]

IdleFetcher == [state |-> "idle", q |-> "", data |-> NoData]

\* A query that nothing in the shop matches.
NoMatch == "zz"

\* The /search endpoint's answer to {q, limit: 5, predictive: true}.
PredictiveSearch(q) ==
    [present |-> TRUE,
     items   |-> IF q \in {"", NoMatch} THEN {} ELSE {q},
     total   |-> IF q \in {"", NoMatch} THEN 0 ELSE 1]

\* getEmptyPredictiveSearchResult()
EmptyPredictiveSearchResult == [items |-> {}, total |-> 0]

\* fetcher.submit under a key: the request in flight under that key is
\* superseded (its response will be dropped), the new one becomes the live one.
FetcherSubmit(key, q) ==
    /\ requests' = { [r EXCEPT !.live = r.live /\ r.key # key] : r \in requests }
                       \cup { [key |-> key, q |-> q, live |-> TRUE] }
    /\ fetchers' = [fetchers EXCEPT ![key] = [@ EXCEPT !.state = "loading",
                                                        !.q = q]]

\* A response reaches the router: it settles its fetcher when its request is
\* still the live one of its key, and is dropped otherwise.
FetcherSettle(r) ==
    /\ requests' = requests \ {r}
    /\ fetchers' = IF r.live
                   THEN [fetchers EXCEPT ![r.key] =
                            [state |-> "idle", q |-> "",
                             data |-> PredictiveSearch(r.q)]]
                   ELSE fetchers

\* usePredictiveSearch(): items and total of fetcher.data.result, or of the
\* empty result; SearchResultsPredictive hands them and fetcher.state on.
usePredictiveSearch(fs) ==
    LET fetcher == fs[ResultsFetcherKey] IN
    [items |-> IF fetcher.data.present THEN fetcher.data.items
               ELSE EmptyPredictiveSearchResult.items,
     total |-> IF fetcher.data.present THEN fetcher.data.total
               ELSE EmptyPredictiveSearchResult.total,
     state |-> fetcher.state]

\* Variant: a term that is taken from the form data in every fetcher state.
termCurrent_anyState(fs, current) == fs[ResultsFetcherKey].q

\* usePredictiveSearch(): if (fetcher?.state === 'loading')
\*   term.current = String(fetcher.formData?.get('q') || '')
termCurrent(fs, current) ==
    IF fs[ResultsFetcherKey].state = "loading"
    THEN fs[ResultsFetcherKey].q
    ELSE current

\* What the children of SearchResultsPredictive are given.
SearchResultsPredictive == usePredictiveSearch(fetchers)

\* SearchResultsPredictive.Empty: nothing without a term, else the message.
SearchResultsPredictiveEmpty(current) ==
    IF current = "" THEN "nothing" ELSE "No results found"

\* The children of SearchResultsPredictive in SearchAside: "Loading..." in the
\* loading state with a term; the empty message without a total; else the
\* results.
SearchAsideView(v, current) ==
    IF v.state = "loading" /\ current # "" THEN "Loading..."
    ELSE IF v.total = 0 THEN SearchResultsPredictiveEmpty(current)
    ELSE "results"

\* SearchAside renders the result links (each with onClick={closeSearch}) when
\* it shows neither "Loading..." (state loading and a term, which in the
\* loading state is the q of the form data) nor the empty message.
ResultLinksShown ==
    LET v == SearchResultsPredictive IN
    /\ ~(v.state = "loading" /\ fetchers[ResultsFetcherKey].q # "")
    /\ v.total # 0

\* goToSearch: SEARCH_ENDPOINT + (term ? `?q=${term}` : '')
SearchUrl(value) ==
    IF value # "" THEN <<"/search", "?q=", value>> ELSE <<"/search">>

\* The `to` of the links that SearchAside renders with the results: one per
\* item, and the link to all results when there is a term.
ResultLinks ==
    { <<"/products/", item>> : item \in SearchResultsPredictive.items }
      \cup (IF term # "" /\ SearchResultsPredictive.total # 0
            THEN {<<"/search", "?q=", term>>} ELSE {})

\* fetchResults(event): fetcher.submit({q: event.target.value || '', ...})
fetchResults(value) ==
    /\ Cardinality(requests) < MaxInflight
    /\ FetcherSubmit(FormFetcherKey, value)
    /\ submitted' = [q |-> value, late |-> FALSE]

----------------------------------------------------------------------------
\* The cart view: CartMain (CartMain.tsx:42-83), CartBanner
\* (src/unnamed/part_000:205-209), CartLineQuantity and its forms
\* (CartLineItem.tsx:111-211), and the optimistic projection they read.

\* Line ids and the merchandise of each line of a confirmed cart.
LineIds == {"L1", "L2"}

Merchandise == [L1 |-> "available", L2 |-> "other"]

\* A line of a cart.
CartLine(id, quantity, isOptimistic) ==
    [id |-> id, merchandise |-> Merchandise[id], quantity |-> quantity,
     isOptimistic |-> isOptimistic]

\* totalQuantity of a list of lines.
RECURSIVE SumQuantities(_)
SumQuantities(lines) ==
    IF lines = <<>> THEN 0
    ELSE Head(lines).quantity + SumQuantities(Tail(lines))

\* The lists of confirmed lines: none, one line, or L1 and then L2, each with
\* a quantity from 1 up.
SnapshotLines ==
    {<<>>}
      \cup { <<CartLine(id, q, FALSE)>> : id \in LineIds, q \in 1..MaxQuantity }
      \cup { <<CartLine("L1", q1, FALSE), CartLine("L2", q2, FALSE)>> :
               q1 \in 1..MaxQuantity, q2 \in 1..MaxQuantity }

\* cart: CartApiQueryFragment | null
NullCart == [isNull |-> TRUE, lines |-> <<>>, totalQuantity |-> 0,
             appliedGiftCards |-> {}]

\* The confirmed carts the API returns: none, or lines with their total.
Snapshots ==
    {NullCart} \cup { [isNull |-> FALSE, lines |-> ls,
                       totalQuantity |-> SumQuantities(ls),
                       appliedGiftCards |-> {}] :
                      ls \in SnapshotLines }

\* The pending intents: CartForm.ACTIONS.LinesAdd of the add-to-cart form,
\* LinesUpdate of a line's decrease or increase form, LinesRemove of a line's
\* remove form.
LinesAdd(merchandise, quantity) ==
    [action |-> "LinesAdd", form |-> "add", id |-> merchandise,
     quantity |-> quantity]

LinesUpdate(form, id, quantity) ==
    [action |-> "LinesUpdate", form |-> form, id |-> id,
     quantity |-> quantity]

LinesRemove(id) ==
    [action |-> "LinesRemove", form |-> "remove", id |-> id, quantity |-> 0]

\* The forms of a rendered line.
LineForms == {"decrease", "increase", "remove"}

\* The id of a line that exists only in the projection.
OptimisticId(merchandise) == "optimistic"

\* Variant: an UpdateLine that keeps a line whose quantity becomes 0.
RECURSIVE UpdateLine_keepsZero(_, _, _)
UpdateLine_keepsZero(lines, id, quantity) ==
    IF lines = <<>> THEN <<>>
    ELSE LET line == Head(lines)
             rest == UpdateLine_keepsZero(Tail(lines), id, quantity)
         IN  IF line.id # id THEN <<line>> \o rest
             ELSE <<[line EXCEPT !.quantity = quantity,
                                 !.isOptimistic = TRUE]>> \o rest

\* UpdateLine{lineId, quantity}: sets the quantity, floor 0; quantity 0 removes
\* the line.
RECURSIVE UpdateLine(_, _, _)
UpdateLine(lines, id, quantity) ==
    IF lines = <<>> THEN <<>>
    ELSE LET line == Head(lines)
             rest == UpdateLine(Tail(lines), id, quantity)
         IN  IF line.id # id THEN <<line>> \o rest
             ELSE IF quantity <= 0 THEN rest
             ELSE <<[line EXCEPT !.quantity = quantity,
                                 !.isOptimistic = TRUE]>> \o rest

\* Variant: an AddLine that always appends a line.
AddLine_append(lines, merchandise, quantity) ==
    Append(lines, [id |-> OptimisticId(merchandise),
                   merchandise |-> merchandise,
                   quantity |-> quantity, isOptimistic |-> TRUE])

\* AddLine{merchandise, quantity}: increments the line of the same merchandise,
\* or appends a new line.
RECURSIVE AddLine(_, _, _)
AddLine(lines, merchandise, quantity) ==
    IF lines = <<>>
    THEN << [id |-> OptimisticId(merchandise), merchandise |-> merchandise,
             quantity |-> quantity, isOptimistic |-> TRUE] >>
    ELSE LET line == Head(lines) IN
         IF line.merchandise = merchandise
         THEN <<[line EXCEPT !.quantity = @ + quantity,
                             !.isOptimistic = TRUE]>> \o Tail(lines)
         ELSE <<line>> \o AddLine(Tail(lines), merchandise, quantity)

\* RemoveLines{lineIds}: filters out the named line.
RemoveLines(lines, id) == SelectSeq(lines, LAMBDA line : line.id # id)

\* One intent applied to the projected lines.
ApplyIntent(lines, intent) ==
    CASE intent.action = "LinesAdd" ->
            AddLine(lines, intent.id, intent.quantity)
      [] intent.action = "LinesUpdate" ->
            UpdateLine(lines, intent.id, intent.quantity)
      [] intent.action = "LinesRemove" -> RemoveLines(lines, intent.id)

\* The intents applied in order.
RECURSIVE ApplyIntents(_, _)
ApplyIntents(lines, intents) ==
    IF intents = <<>> THEN lines
    ELSE ApplyIntents(ApplyIntent(lines, Head(intents)), Tail(intents))

\* project(snapshot, intents): the lines after the intents, the recomputed
\* totalQuantity, and isOptimistic while an intent is unresolved.
project(snapshot, intents) ==
    LET lines == ApplyIntents(snapshot.lines, intents) IN
    [lines |-> lines,
     totalQuantity |-> SumQuantities(lines),
     appliedGiftCards |-> snapshot.appliedGiftCards,
     isOptimistic |-> intents # <<>>]

\* Variant: a CartMain that projects the intents onto no cart.
useOptimisticCart_noSnapshot(originalCart, intents) ==
    project(NullCart, intents)

\* const cart = useOptimisticCart(originalCart)
useOptimisticCart(originalCart, intents) == project(originalCart, intents)

\* Variant: a badge that counts the lines.
CartBadgeCount_lines(c) == Len(c.lines)

\* <CartBadge count={cart?.totalQuantity ?? 0} />
CartBadgeCount(c) == c.totalQuantity

\* (cart?.lines?.nodes ?? []).map(line => <CartLineItem line={line} />)
CartMainLines(c) == c.lines

\* Variant: a CartSummary that is always rendered.
cartHasItems_always(c) == TRUE

\* const cartHasItems = cart?.totalQuantity! > 0: CartSummary is rendered.
cartHasItems(c) == c.totalQuantity > 0

\* const linesCount = Boolean(cart?.lines?.nodes?.length || 0);
\* <CartEmpty hidden={linesCount} />
CartEmptyHidden(c) == Len(c.lines) # 0

\* What CartMain and CartBanner render of a cart.
CartView(c) == [lines |-> CartMainLines(c), count |-> CartBadgeCount(c),
                giftCards |-> c.appliedGiftCards]

\* Variant: a previous quantity without the floor.
prevQuantity_noFloor(quantity) == quantity - 1

\* const prevQuantity = Number(Math.max(0, quantity - 1).toFixed(0))
prevQuantity(quantity) == IF quantity - 1 > 0 THEN quantity - 1 ELSE 0

\* const nextQuantity = Number((quantity + 1).toFixed(0))
nextQuantity(quantity) == quantity + 1

\* Variant: a decrease button that is enabled at quantity 1.
DecreaseDisabled_atZero(line) == line.quantity <= 0 \/ line.isOptimistic

\* disabled={quantity <= 1 || !!isOptimistic}
DecreaseDisabled(line) == line.quantity <= 1 \/ line.isOptimistic

\* disabled={!!isOptimistic}
IncreaseDisabled(line) == line.isOptimistic

\* Variant: a remove button that is never disabled.
RemoveDisabled_never(line) == FALSE

\* <CartLineRemoveButton lineIds={[lineId]} disabled={!!isOptimistic} />
RemoveDisabled(line) == line.isOptimistic

\* The cart as CartMain and CartBanner get it from useOptimisticCart.
ProjectedCart == useOptimisticCart(cart, pending)

\* Variant: an answer that empties the queue.
Without_all(intents, form, id) == <<>>

\* The intents left when the intent of a form has been answered.
Without(intents, form, id) ==
    SelectSeq(intents, LAMBDA i : ~(i.form = form /\ i.id = id))

\* Variant: a queue that takes a new intent at its front.
Submit_atFront(intents, intent) == <<intent>> \o intents

\* A form's fetcher posts its intent; one that it still has in flight is
\* replaced and keeps its place.
Submit(intents, intent) ==
    IF \E k \in 1..Len(intents) :
          intents[k].form = intent.form /\ intents[k].id = intent.id
    THEN [k \in 1..Len(intents) |->
            IF intents[k].form = intent.form /\ intents[k].id = intent.id
            THEN intent ELSE intents[k]]
    ELSE Append(intents, intent)

\* Variant: a product link that closes the overlay in every layout.
CartLineLinkCloses_always(layoutProp) == TRUE

\* onClick of a cart line's product link: if (layout === 'aside') close()
CartLineLinkCloses(layoutProp) == layoutProp = "aside"

----------------------------------------------------------------------------
\* Gift cards: CartGiftCard and UpdateGiftCardForm
\* (AddToCartButton.tsx:404-508).  A code is a sequence of characters.

\* What the user types into the gift card input: codes that differ in case
\* and in whitespace, whitespace only, and nothing.
GiftCardCodes == { <<"a">>, <<"a", " ">>, <<"A">>, <<" ">>, <<>> }

\* formData.get('giftCardCode') of a form without that field, or of no form
\* data at all.
NoCode == <<>>

\* code.replace(/\s/g, '')
formattedCode(code) == SelectSeq(code, LAMBDA ch : ch # " ")

\* appliedGiftCardCodes.current.includes(formattedCode)
Includes(codes, code) == \E i \in 1..Len(codes) : codes[i] = code

\* Variant: a save that does not look for the code in the list.
saveAppliedCode_alwaysPush(codes, code) == Append(codes, formattedCode(code))

\* saveAppliedCode(code): push the formatted code unless the list includes it.
saveAppliedCode(codes, code) ==
    IF ~Includes(codes, formattedCode(code))
    THEN Append(codes, formattedCode(code))
    ELSE codes

\* removeAppliedCode(): appliedGiftCardCodes.current = []
removeAppliedCode(codes) == <<>>

\* The render of the apply form's children: if (code) saveAppliedCode(code),
\* with the code of the fetcher's form data.
UpdateGiftCardForm(codes, fetcher) ==
    IF fetcher.state # "idle" /\ fetcher.code # NoCode
    THEN saveAppliedCode(codes, fetcher.code)
    ELSE codes

IdleGiftFetcher == [state |-> "idle", code |-> NoCode, codes |-> <<>>]

\* The appliedGiftCards a confirmed cart reports: none, or one card.
GiftCardSets == { {}, {<<"a">>} }

\* CartSummary, and CartGiftCard in it, is rendered when the cart has items.
CartSummaryMounted == cartHasItems(ProjectedCart)

----------------------------------------------------------------------------
\* AddToCartButton (AddToCartButton.tsx:49-53) and ProductForm
\* (src/unnamed/part_001:38-57).

\* disabled={disabled ?? fetcher.state !== 'idle'}
AddToCartDisabled(disabled, state) ==
    IF disabled # "undefined" THEN disabled = "true" ELSE state # "idle"

\* disabled={!selectedVariant || !selectedVariant.availableForSale}
ProductFormDisabled(selectedVariant) ==
    IF selectedVariant = "none" \/ selectedVariant # "available"
    THEN "true" ELSE "false"

\* Variant: a ProductForm that hands the button no line.
ProductFormLines_none(selectedVariant) == <<>>

\* lines={selectedVariant ? [{merchandiseId: selectedVariant.id, quantity: 1,
\* selectedVariant}] : []}
ProductFormLines(selectedVariant) ==
    IF selectedVariant # "none"
    THEN <<[merchandiseId |-> selectedVariant, quantity |-> 1]>>
    ELSE <<>>

\* Submitting the CartForm: its fetcher posts the LinesAdd action with
\* inputs={{lines}}.  A LinesAdd without a line adds nothing to the projection.
CartFormSubmit(lines) ==
    /\ cartSent < MaxCartSent
    /\ cartState' = "submitting"
    /\ cartSent' = cartSent + 1
    /\ pending' = IF lines = <<>> THEN pending
                  ELSE Submit(pending, LinesAdd(lines[1].merchandiseId,
                                                lines[1].quantity))

----------------------------------------------------------------------------
\* Menus: HeaderMenu (src/unnamed/part_000:59-116), MobileMenuAside
\* (src/unnamed/part_002:200-221), Footer and FooterMenu (Footer.tsx:22-97).
\* A string is a sequence of tokens, so that `includes` is a search for a
\* contiguous run of tokens and "myshopify.com" occurs in
\* "example." "myshopify.com".

SchemeTokens == {"https://"}

PathTokens == {"/", "/x", "/cart", "/pages/", "/pages/about", "/collections",
               "/blogs/journal", "/policies", "/policies/privacy-policy",
               "/policies/refund-policy", "/policies/shipping-policy",
               "/policies/terms-of-service"}

QueryTokens == {"?ref="}

\* The url of a menu item the menu query returns: on the shop's platform
\* domain, on another store, on another store with a shop domain in its query
\* or in its path, on the public store domain, relative, and relative with a
\* shop domain in its path.
LinkUrls ==
    { <<"https://", "example.", "myshopify.com", "/pages/about">>,
      <<"https://", "otherstore.com", "/x">>,
      <<"https://", "otherstore.com", "/x", "?ref=", "myshopify.com">>,
      <<"https://", "otherstore.com", "/", "shop.com">>,
      <<"https://", "shop.com", "/cart">>,
      <<"/collections">>,
      <<"/pages/", "myshopify.com">> }

\* An item without a url: if (!item.url) return null
NoUrl == <<>>

\* publicStoreDomain (env.PUBLIC_STORE_DOMAIN): a domain, or the empty string
StoreDomains == { <<"shop.com">>, <<"example.", "myshopify.com">>, <<>> }

\* header.shop.primaryDomain.url
PrimaryDomainUrls == { <<"https://", "shop.com">>,
                       <<"https://", "example.", "myshopify.com">> }

\* String.prototype.includes
includes(s, sub) ==
    \E i \in 1..(Len(s) - Len(sub) + 1) : SubSeq(s, i, i + Len(sub) - 1) = sub

\* url.startsWith('/')
startsWithSlash(s) == Len(s) > 0 /\ s[1] \in PathTokens

\* Index of the first token of s, from index `from` on, that is in S; one past
\* the end when there is none.
RECURSIVE FirstIndex(_, _, _)
FirstIndex(s, S, from) ==
    IF from > Len(s) THEN Len(s) + 1
    ELSE IF s[from] \in S THEN from
    ELSE FirstIndex(s, S, from + 1)

\* new URL(url): throws a TypeError for a url without a scheme; otherwise the
\* host runs up to the path or query, the pathname up to the query.
ParseURL(s) ==
    IF Len(s) = 0 \/ s[1] \notin SchemeTokens
    THEN [ok |-> FALSE, host |-> <<>>, pathname |-> <<>>]
    ELSE LET p == FirstIndex(s, PathTokens \cup QueryTokens, 2)
             q == FirstIndex(s, QueryTokens, p)
         IN  [ok |-> TRUE,
              host |-> SubSeq(s, 2, p - 1),
              pathname |-> IF p = q THEN <<"/">> ELSE SubSeq(s, p, q - 1)]

\* const url = item.url.includes('myshopify.com') || item.url.includes(
\* publicStoreDomain) || item.url.includes(primaryDomainUrl)
\*   ? new URL(item.url).pathname : item.url
ResolveUrl(url, publicStoreDomain, primaryDomainUrl) ==
    IF \/ includes(url, <<"myshopify.com">>)
       \/ includes(url, publicStoreDomain)
       \/ includes(url, primaryDomainUrl)
    THEN [ok |-> ParseURL(url).ok, url |-> ParseURL(url).pathname]
    ELSE [ok |-> TRUE, url |-> url]

MenuItem(title, url) == [title |-> title, url |-> url]

FALLBACK_HEADER_MENU ==
    << MenuItem("Collections", <<"/collections">>),
       MenuItem("Blog", <<"/blogs/journal">>),
       MenuItem("Policies", <<"/policies">>),
       MenuItem("About", <<"/pages/about">>) >>

FALLBACK_FOOTER_MENU ==
    << MenuItem("Privacy Policy", <<"/policies/privacy-policy">>),
       MenuItem("Refund Policy", <<"/policies/refund-policy">>),
       MenuItem("Shipping Policy", <<"/policies/shipping-policy">>),
       MenuItem("Terms of Service", <<"/policies/terms-of-service">>) >>

\* A null menu.
NullMenu == [isNull |-> TRUE, items |-> <<>>]

\* The menus the menu query yields: none, or one item with any of the urls or
\* with none.
Menus == {NullMenu} \cup
         { [isNull |-> FALSE, items |-> <<MenuItem("Item", u)>>] :
             u \in LinkUrls \cup {NoUrl} }

\* The footer promise's value: null, or a FooterQuery without a menu or with
\* the items that the header menu m has.
Footers(m) == { [isNull |-> TRUE, menu |-> NullMenu],
                [isNull |-> FALSE, menu |-> NullMenu],
                [isNull |-> FALSE, menu |-> m] }

\* PageLayout's props.
Layouts ==
    UNION { [headerMenu : {m}, primaryDomainUrl : PrimaryDomainUrls,
             footer : Footers(m), publicStoreDomain : StoreDomains] :
            m \in Menus }

\* (menu || FALLBACK).items
ItemsOr(m, fallback) == IF ~m.isNull THEN m.items ELSE fallback

\* Nothing is rendered in the place of a component.
NoLinks == [rendered |-> FALSE, error |-> FALSE, links |-> <<>>]

\* HeaderMenu's element for an item: always a NavLink.
HeaderElement(item, url) ==
    [title |-> item.title, from |-> item.url, url |-> url, tag |-> "NavLink"]

\* FooterMenu's element for an item: const isExternal = !url.startsWith('/');
\* an <a target="_blank"> when external, a NavLink otherwise.
FooterElement(item, url) ==
    [title |-> item.title, from |-> item.url, url |-> url,
     tag |-> IF ~startsWithSlash(url) THEN "a" ELSE "NavLink"]

\* items.map(...) of HeaderMenu ("header") and of FooterMenu ("footer"): the
\* items with a url, each resolved; the render throws when one of them does.
RECURSIVE MapItems(_, _, _, _)
MapItems(items, publicStoreDomain, primaryDomainUrl, component) ==
    IF items = <<>> THEN [rendered |-> TRUE, error |-> FALSE, links |-> <<>>]
    ELSE LET item == Head(items)
             rest == MapItems(Tail(items), publicStoreDomain,
                              primaryDomainUrl, component)
         IN  IF item.url = NoUrl THEN rest
             ELSE LET r == ResolveUrl(item.url, publicStoreDomain,
                                      primaryDomainUrl)
                      element == IF component = "header"
                                 THEN HeaderElement(item, r.url)
                                 ELSE FooterElement(item, r.url)
                  IN  IF ~r.ok \/ rest.error
                      THEN [rendered |-> TRUE, error |-> TRUE, links |-> <<>>]
                      ELSE [rest EXCEPT !.links = <<element>> \o @]

\* The mobile HeaderMenu's first link.
HomeLink == [title |-> "Home", from |-> <<"/">>, url |-> <<"/">>,
             tag |-> "NavLink"]

\* <HeaderMenu menu={menu} viewport={viewport} ...>
HeaderMenu(m, viewport, l) ==
    LET items == MapItems(ItemsOr(m, FALLBACK_HEADER_MENU),
                          l.publicStoreDomain, l.primaryDomainUrl, "header")
    IN  IF viewport = "mobile" /\ ~items.error
        THEN [items EXCEPT !.links = <<HomeLink>> \o @]
        ELSE items

\* header.menu && header.shop.primaryDomain?.url, as a boolean
HasMenu(l) == ~l.headerMenu.isNull /\ l.primaryDomainUrl # <<>>

\* header.menu && header.shop.primaryDomain?.url && <Aside type="mobile">...
MobileMenuAside(l) ==
    IF HasMenu(l) THEN HeaderMenu(l.headerMenu, "mobile", l) ELSE NoLinks

\* footer?.menu && header.shop.primaryDomain?.url && <FooterMenu .../>
Footer(l) ==
    IF ~l.footer.isNull /\ ~l.footer.menu.isNull /\ l.primaryDomainUrl # <<>>
    THEN MapItems(ItemsOr(l.footer.menu, FALLBACK_FOOTER_MENU),
                  l.publicStoreDomain, l.primaryDomainUrl, "footer")
    ELSE NoLinks

\* What PageLayout renders of the menus.
RenderMenus(l) ==
    [header |-> HeaderMenu(l.headerMenu, "desktop", l),
     mobile |-> MobileMenuAside(l),
     footer |-> Footer(l)]

\* The props the storefront starts with, with and without a header menu.
DefaultLayout(m) ==
    [headerMenu |-> IF m
                    THEN [isNull |-> FALSE,
                          items |-> <<MenuItem("Item", <<"/collections">>)>>]
                    ELSE NullMenu,
     primaryDomainUrl |-> <<"https://", "shop.com">>,
     footer |-> [isNull |-> TRUE, menu |-> NullMenu],
     publicStoreDomain |-> <<"shop.com">>]

----------------------------------------------------------------------------
\* Search result products and prices: SearchResultsPredictiveProducts
\* (SearchResultsPredictive.tsx:218-265), SearchResultsProducts
\* (AddToCartButton.tsx:186-255) and ProductPrice (src/unnamed/part_003:17-44).
\* A piece of data is TRUE when the API has returned it.  Each rendered element
\* is "Image" or "Money", "Money(undefined)" for a Money without its data,
\* "blank" for a placeholder, or "omitted".

\* Most products of one search answer.
MaxProducts == 2

\* A search-result product: its variants.nodes are none, or one variant with
\* or without an image and with or without a price.
Products ==
    [variants : {<<>>} \cup { <<v>> : v \in [image : BOOLEAN, price : BOOLEAN] }]

\* Reading a property of undefined ends the render with a TypeError.
TypeError == [error |-> TRUE, items |-> <<>>]

\* SearchResultsPredictiveProducts: product?.variants?.nodes?.[0].image and
\* .price are read off nodes[0], which is undefined for an empty list; the
\* image and the price are rendered when they are there.
SearchResultsPredictiveProducts(products) ==
    IF \E i \in 1..Len(products) : products[i].variants = <<>>
    THEN TypeError
    ELSE [error |-> FALSE,
          items |-> [i \in 1..Len(products) |->
                       LET node == products[i].variants[1] IN
                       [image |-> IF node.image THEN "Image" ELSE "omitted",
                        price |-> IF node.price THEN "Money" ELSE "omitted"]]]

\* SearchResultsProducts: product.variants.nodes[0].image && <Image>, and
\* <Money data={product.variants.nodes[0].price} /> whatever the price.
SearchResultsProducts(products) ==
    IF \E i \in 1..Len(products) : products[i].variants = <<>>
    THEN TypeError
    ELSE [error |-> FALSE,
          items |-> [i \in 1..Len(products) |->
                       LET node == products[i].variants[1] IN
                       [image |-> IF node.image THEN "Image" ELSE "omitted",
                        price |-> IF node.price THEN "Money"
                                  ELSE "Money(undefined)"]]]

\* The image of a predictive article or collection: image?.url && <Image>.
PredictiveResultImage(image) == IF image THEN "Image" ELSE "omitted"

\* ProductPrice: with a compareAtPrice, the price if there is one and the
\* compareAtPrice struck through; without, the price, or a non-breaking space.
ProductPrice(price, compareAtPrice) ==
    [error |-> FALSE,
     price |-> IF price THEN "Money"
               ELSE IF compareAtPrice THEN "omitted" ELSE "blank",
     compareAtPrice |-> IF compareAtPrice THEN "Money" ELSE "omitted"]

\* What the loaders return: the product nodes of a search answer, whether the
\* articles and collections of the answer have an image, and the price and
\* compareAtPrice of the selected variant of the product page.
Catalogs ==
    [products : UNION { [1..n -> Products] : n \in 0..MaxProducts },
     image : BOOLEAN, price : BOOLEAN, compareAtPrice : BOOLEAN]

\* Nothing has been searched for; the product page has a price.
EmptyCatalog ==
    [products |-> <<>>, image |-> TRUE, price |-> TRUE,
     compareAtPrice |-> FALSE]

\* The components rendered with the data.
RenderCatalog(c) ==
    [predictive |-> SearchResultsPredictiveProducts(c.products),
     regular |-> SearchResultsProducts(c.products),
     image |-> PredictiveResultImage(c.image),
     productPrice |-> ProductPrice(c.price, c.compareAtPrice)]

----------------------------------------------------------------------------
\* Initial state: PageLayout has rendered once, nothing is open or in flight.

Started ==
    /\ type = "closed"
    /\ closeId = 0
    /\ effects = [a \in Asides |->
                    IF a \in Mounted(menu)
                    THEN [live |-> TRUE, close |-> 0, expanded |-> FALSE]
                    ELSE NoEffect]
    /\ listeners = {}
    /\ fetchers = [k \in FetcherKeys |-> IdleFetcher]
    /\ requests = {}
    /\ inputValue = ""
    /\ focus = "none"
    /\ searchForm = FALSE
    /\ cartState = "idle"
    /\ cartSent = 0
    /\ lastCall = [op |-> "init", arg |-> "closed", again |-> FALSE]
    /\ escape = NoEscape
    /\ submitted = [q |-> NoQuery, late |-> FALSE]
    /\ hook = [ctx |-> AsideProvider("closed", 0),
               out |-> useAside(AsideProvider("closed", 0))]
    /\ page = RenderMenus(layout)
    /\ pending = <<>>
    /\ appliedGiftCardCodes = <<>>
    /\ giftForms = [apply |-> IdleGiftFetcher, remove |-> "idle"]
    /\ giftLog = [applied |-> <<>>, last |-> "none"]
    /\ term = ""
    /\ navigation = NoNavigation
    /\ listing = RenderCatalog(catalog)

\* The storefront with and without a header menu.
Init ==
    /\ menu \in BOOLEAN
    /\ layout = DefaultLayout(menu)
    /\ cart = NullCart
    /\ catalog = EmptyCatalog
    /\ Started

\* The storefront with any of the menus and domains.
InitMenu ==
    /\ layout \in Layouts
    /\ menu = HasMenu(layout)
    /\ cart = NullCart
    /\ catalog = EmptyCatalog
    /\ Started

\* The storefront with any confirmed cart.
InitCart ==
    /\ menu = TRUE
    /\ layout = DefaultLayout(menu)
    /\ cart \in Snapshots
    /\ catalog = EmptyCatalog
    /\ Started

\* The storefront with a cart of one line, with and without a gift card.
InitGiftCard ==
    /\ menu = TRUE
    /\ layout = DefaultLayout(menu)
    /\ cart \in { [isNull |-> FALSE, lines |-> <<CartLine("L1", 1, FALSE)>>,
                   totalQuantity |-> 1, appliedGiftCards |-> g] :
                  g \in GiftCardSets }
    /\ catalog = EmptyCatalog
    /\ Started

\* The storefront with no cart, and with a cart of one line.
InitNavigation ==
    /\ menu = TRUE
    /\ layout = DefaultLayout(menu)
    /\ cart \in { c \in Snapshots : c.totalQuantity <= 1 }
    /\ catalog = EmptyCatalog
    /\ Started

\* The storefront with any search answer and any product price.
InitListing ==
    /\ menu = TRUE
    /\ layout = DefaultLayout(menu)
    /\ cart = NullCart
    /\ catalog \in Catalogs
    /\ Started

----------------------------------------------------------------------------
\* Actions: header controls (src/unnamed/part_000:146-193).

\* HeaderMenuMobileToggle: onClick={() => open('mobile')}
HeaderMenuMobileToggle ==
    /\ open("mobile")
    /\ focus' = FocusAfter(focus, "mobile")
    /\ escape' = NoEscape
    /\ UNCHANGED <<fetchers, requests, inputValue, searchForm, cartState,
                   cartSent, submitted>>
    /\ UNCHANGED <<menuVars, cartViewVars, giftVars>>
    /\ navigation' = NoNavigation
    /\ UNCHANGED <<term, listingVars>>
    /\ Consumers

\* SearchToggle: onClick={() => open('search')}
SearchToggle ==
    /\ open("search")
    /\ focus' = FocusAfter(focus, "search")
    /\ escape' = NoEscape
    /\ UNCHANGED <<fetchers, requests, inputValue, searchForm, cartState,
                   cartSent, submitted>>
    /\ UNCHANGED <<menuVars, cartViewVars, giftVars>>
    /\ navigation' = NoNavigation
    /\ UNCHANGED <<term, listingVars>>
    /\ Consumers

\* CartBadge: onClick opens the cart (and publishes an analytics event).
CartBadge ==
    /\ open("cart")
    /\ focus' = FocusAfter(focus, "cart")
    /\ escape' = NoEscape
    /\ UNCHANGED <<fetchers, requests, inputValue, searchForm, cartState,
                   cartSent, submitted>>
    /\ UNCHANGED <<menuVars, cartViewVars, giftVars>>
    /\ navigation' = NoNavigation
    /\ UNCHANGED <<term, listingVars>>
    /\ Consumers

\* A link of the desktop HeaderMenu: onClick={close}
\* (src/unnamed/part_000:100-111).
HeaderMenuLink ==
    /\ close
    /\ focus' = FocusAfter(focus, "closed")
    /\ escape' = NoEscape
    /\ UNCHANGED <<fetchers, requests, inputValue, searchForm, cartState,
                   cartSent, submitted>>
    /\ UNCHANGED <<menuVars, cartViewVars, giftVars>>
    /\ \E i \in 1..Len(page.header.links) :
          navigation' = page.header.links[i].url
    /\ UNCHANGED <<term, listingVars>>
    /\ Consumers

----------------------------------------------------------------------------
\* Actions of an Aside (Aside.tsx:52-93).

\* The close-outside and the x button of the expanded Aside: onClick={close}.
\* The buttons of a collapsed overlay take no pointer or keyboard input.
AsideCloseButton(a) ==
    /\ a \in Mounted(menu)
    /\ expanded(a, type)
    /\ close
    /\ focus' = FocusAfter(focus, "closed")
    /\ escape' = NoEscape
    /\ UNCHANGED <<fetchers, requests, inputValue, searchForm, cartState,
                   cartSent, submitted>>
    /\ UNCHANGED <<menuVars, cartViewVars, giftVars>>
    /\ navigation' = NoNavigation
    /\ UNCHANGED <<term, listingVars>>
    /\ Consumers

\* useFocusOnCmdK's handleKeyDown (SearchForm.tsx:69-82), installed while the
\* SearchForm is mounted: cmd+k focuses its input, Escape blurs it.
handleKeyDown(key, metaKey, f) ==
    IF ~searchForm THEN f
    ELSE LET g == IF key = "k" /\ metaKey THEN "page" ELSE f
         IN  IF key = "Escape" /\ g = "page" THEN "none" ELSE g

\* Variant: Aside handlers that call close() on every key.
KeyDown_anyKey(key, metaKey) ==
    LET calls == Cardinality(listeners) IN
    /\ IF calls > 0
       THEN close
       ELSE setType(type) /\ UNCHANGED lastCall
    /\ escape' = IF key = "Escape"
                 THEN [pressed |-> TRUE, before |-> type, calls |-> calls]
                 ELSE NoEscape
    /\ focus' = FocusAfter(handleKeyDown(key, metaKey, focus), type')
    /\ UNCHANGED <<fetchers, requests, inputValue, searchForm, cartState,
                   cartSent, submitted>>
    /\ UNCHANGED <<menuVars, cartViewVars, giftVars>>
    /\ navigation' = NoNavigation
    /\ UNCHANGED <<term, listingVars>>
    /\ Consumers

\* A keydown event on document: every attached Aside handler runs and calls
\* close() on Escape; the SearchForm's handler runs too.
KeyDown(key, metaKey) ==
    LET calls == IF key = "Escape" THEN Cardinality(listeners) ELSE 0 IN
    /\ IF calls > 0
       THEN close
       ELSE setType(type) /\ UNCHANGED lastCall
    /\ escape' = IF key = "Escape"
                 THEN [pressed |-> TRUE, before |-> type, calls |-> calls]
                 ELSE NoEscape
    /\ focus' = FocusAfter(handleKeyDown(key, metaKey, focus), type')
    /\ UNCHANGED <<fetchers, requests, inputValue, searchForm, cartState,
                   cartSent, submitted>>
    /\ UNCHANGED <<menuVars, cartViewVars, giftVars>>
    /\ navigation' = NoNavigation
    /\ UNCHANGED <<term, listingVars>>
    /\ Consumers

\* A keydown event with its modifiers.  Neither the Asides' handler nor
\* useFocusOnCmdK's reads event.ctrlKey.
KeyDownEvent(key, metaKey, ctrlKey) == KeyDown(key, metaKey)

\* PageLayout renders again (navigation, revalidation) with the same header.
Rerender ==
    /\ Render(type, menu, TRUE)
    /\ escape' = NoEscape
    /\ UNCHANGED <<fetchers, requests, inputValue, focus, searchForm,
                   cartState, cartSent, submitted, lastCall>>
    /\ UNCHANGED <<menuVars, cartViewVars, giftVars>>
    /\ navigation' = NoNavigation
    /\ UNCHANGED <<term, listingVars>>
    /\ Consumers

\* The header data changes between having and not having a menu with a
\* primary-domain URL: MobileMenuAside mounts or unmounts its Aside
\* (src/unnamed/part_002:200-221).
HeaderLoaded(m) ==
    /\ m # menu
    /\ Render(type, m, FALSE)
    /\ layout' = [layout EXCEPT !.headerMenu = DefaultLayout(m).headerMenu]
    /\ page' = RenderMenus(layout')
    /\ escape' = NoEscape
    /\ UNCHANGED <<fetchers, requests, inputValue, focus, searchForm,
                   cartState, cartSent, submitted, lastCall>>
    /\ UNCHANGED <<cartViewVars, giftVars>>
    /\ navigation' = NoNavigation
    /\ UNCHANGED <<term, listingVars>>
    /\ Consumers

\* The root loader hands PageLayout other header, footer or domain data: the
\* layout renders again with them (src/unnamed/part_002:44-86).
RootLoaderData(l) ==
    /\ l # layout
    /\ Render(type, HasMenu(l), TRUE)
    /\ layout' = l
    /\ page' = RenderMenus(l)
    /\ escape' = NoEscape
    /\ UNCHANGED <<fetchers, requests, inputValue, focus, searchForm,
                   cartState, cartSent, submitted, lastCall>>
    /\ UNCHANGED <<cartViewVars, giftVars>>
    /\ navigation' = NoNavigation
    /\ UNCHANGED <<term, listingVars>>
    /\ Consumers

\* A component calls useAside() with no AsideProvider above it.
UseAsideOutsideProvider ==
    /\ hook' = [ctx |-> AsideContext, out |-> useAside(AsideContext)]
    /\ escape' = NoEscape
    /\ UNCHANGED <<menuVars, cartViewVars, giftVars>>
    /\ UNCHANGED <<type, closeId, menu, effects, listeners, fetchers,
                   requests, inputValue, focus, searchForm, cartState,
                   cartSent, submitted, lastCall>>    /\ navigation' = NoNavigation
    /\ UNCHANGED <<term, listingVars>>

----------------------------------------------------------------------------
\* Actions of the search Aside (src/unnamed/part_002:104-198).

\* <input onChange={fetchResults}>: the user edits the focused input.
ChangeInput(value) ==
    /\ expanded("search", type)
    /\ focus = "aside"
    /\ value # inputValue
    /\ inputValue' = value
    /\ fetchResults(value)
    /\ escape' = NoEscape
    /\ UNCHANGED <<type, closeId, menu, effects, listeners, focus, searchForm,
                   cartState, cartSent, lastCall>>
    /\ UNCHANGED <<menuVars, cartViewVars, giftVars>>
    /\ navigation' = NoNavigation
    /\ term' = termCurrent(fetchers', term)
    /\ UNCHANGED listingVars
    /\ Consumers

\* <input onFocus={fetchResults}>: the input gains focus.
FocusInput ==
    /\ expanded("search", type)
    /\ focus # "aside"
    /\ focus' = "aside"
    /\ fetchResults(inputValue)
    /\ escape' = NoEscape
    /\ UNCHANGED <<type, closeId, menu, effects, listeners, inputValue,
                   searchForm, cartState, cartSent, lastCall>>
    /\ UNCHANGED <<menuVars, cartViewVars, giftVars>>
    /\ navigation' = NoNavigation
    /\ term' = termCurrent(fetchers', term)
    /\ UNCHANGED listingVars
    /\ Consumers

\* The response of a predictive-search request arrives.
SearchResponse(r) ==
    /\ r \in requests
    /\ FetcherSettle(r)
    /\ submitted' = [submitted EXCEPT
                       !.late = @ \/ (~r.live /\ \A o \in requests : ~o.live)]
    /\ escape' = NoEscape
    /\ UNCHANGED <<type, closeId, menu, effects, listeners, inputValue, focus,
                   searchForm, cartState, cartSent, lastCall>>
    /\ UNCHANGED <<menuVars, cartViewVars, giftVars>>
    /\ navigation' = NoNavigation
    /\ term' = termCurrent(fetchers', term)
    /\ UNCHANGED listingVars
    /\ Consumers

\* closeSearch() from a result link (SearchResultsPredictive.tsx:56-69):
\* resetInput() blurs and empties the search input, then aside.close().
closeSearch ==
    /\ expanded("search", type)
    /\ ResultLinksShown
    /\ inputValue' = ""
    /\ close
    /\ focus' = FocusAfter(IF focus = "aside" THEN "none" ELSE focus, "closed")
    /\ escape' = NoEscape
    /\ UNCHANGED <<fetchers, requests, searchForm, cartState, cartSent,
                   submitted>>
    /\ UNCHANGED <<menuVars, cartViewVars, giftVars>>
    /\ navigation' \in ResultLinks
    /\ UNCHANGED <<term, listingVars>>
    /\ Consumers

\* goToSearch() (SearchFormPredictive.tsx:83-87): navigate to the search page,
\* which mounts its SearchForm, then aside.close().
goToSearch ==
    /\ expanded("search", type)
    /\ searchForm' = TRUE
    /\ close
    /\ focus' = FocusAfter(focus, "closed")
    /\ escape' = NoEscape
    /\ UNCHANGED <<fetchers, requests, inputValue, cartState, cartSent,
                   submitted>>
    /\ UNCHANGED <<menuVars, cartViewVars, giftVars>>
    /\ navigation' = SearchUrl(inputValue)
    /\ UNCHANGED <<term, listingVars>>
    /\ Consumers

----------------------------------------------------------------------------
\* Actions of the /search page's SearchForm (SearchForm.tsx:37-58).

\* The user leaves the search page: the SearchForm and its input unmount.
LeaveSearchPage ==
    /\ searchForm
    /\ searchForm' = FALSE
    /\ focus' = IF focus = "page" THEN "none" ELSE focus
    /\ escape' = NoEscape
    /\ UNCHANGED <<type, closeId, menu, effects, listeners, fetchers,
                   requests, inputValue, cartState, cartSent, lastCall,
                   submitted>>
    /\ UNCHANGED <<menuVars, cartViewVars, giftVars>>
    /\ navigation' = NoNavigation
    /\ UNCHANGED <<term, listingVars>>
    /\ Consumers

\* The user puts the focus into the SearchForm's input.
FocusPageInput ==
    /\ searchForm
    /\ focus # "page"
    /\ focus' = "page"
    /\ escape' = NoEscape
    /\ UNCHANGED <<type, closeId, menu, effects, listeners, fetchers,
                   requests, inputValue, searchForm, cartState, cartSent,
                   lastCall, submitted>>
    /\ UNCHANGED <<menuVars, cartViewVars, giftVars>>
    /\ navigation' = NoNavigation
    /\ UNCHANGED <<term, listingVars>>
    /\ Consumers

----------------------------------------------------------------------------
\* Actions of the add-to-cart button.

\* ProductForm's button: onClick opens the cart, then the form submits.
ProductFormAddToCart(selectedVariant) ==
    /\ ~AddToCartDisabled(ProductFormDisabled(selectedVariant), cartState)
    /\ open("cart")
    /\ CartFormSubmit(ProductFormLines(selectedVariant))
    /\ focus' = FocusAfter(focus, "cart")
    /\ escape' = NoEscape
    /\ UNCHANGED <<fetchers, requests, inputValue, searchForm, submitted>>
    /\ UNCHANGED <<menuVars, cart, giftVars>>
    /\ navigation' = NoNavigation
    /\ UNCHANGED <<term, listingVars>>
    /\ Consumers

\* An AddToCartButton given the disabled prop as is, and no onClick.
AddToCartButton(disabled) ==
    /\ ~AddToCartDisabled(disabled, cartState)
    /\ CartFormSubmit(ProductFormLines("available"))
    /\ escape' = NoEscape
    /\ UNCHANGED <<type, closeId, menu, effects, listeners, fetchers,
                   requests, inputValue, focus, searchForm, lastCall,
                   submitted>>
    /\ UNCHANGED <<menuVars, cart, giftVars>>
    /\ navigation' = NoNavigation
    /\ UNCHANGED <<term, listingVars>>
    /\ Consumers

\* The cart action has answered; the fetcher revalidates the loaders.
CartActionDone ==
    /\ cartState = "submitting"
    /\ cartState' = "loading"
    /\ UNCHANGED pending
    /\ escape' = NoEscape
    /\ UNCHANGED <<type, closeId, menu, effects, listeners, fetchers,
                   requests, inputValue, focus, searchForm, cartSent,
                   lastCall, submitted>>
    /\ UNCHANGED <<menuVars, cart, giftVars>>
    /\ navigation' = NoNavigation
    /\ UNCHANGED <<term, listingVars>>
    /\ Consumers

\* Revalidation is done; the fetcher is idle again.
CartRevalidated ==
    /\ cartState = "loading"
    /\ cartState' = "idle"
    /\ cartSent' = 0
    /\ pending' = Without(pending, "add", "available")
    /\ escape' = NoEscape
    /\ UNCHANGED <<type, closeId, menu, effects, listeners, fetchers,
                   requests, inputValue, focus, searchForm, lastCall,
                   submitted>>
    /\ UNCHANGED <<menuVars, cart, giftVars>>
    /\ navigation' = NoNavigation
    /\ UNCHANGED <<term, listingVars>>
    /\ Consumers

----------------------------------------------------------------------------
\* Actions of the cart view (CartMain in the cart Aside or on the cart page).

\* The decrease button of the i-th rendered line: its CartLineUpdateButton
\* form posts LinesUpdate with prevQuantity.
CartLineDecrease(i) ==
    /\ i \in 1..Len(CartMainLines(ProjectedCart))
    /\ LET line == CartMainLines(ProjectedCart)[i] IN
         /\ ~DecreaseDisabled(line)
         /\ pending' = Submit(pending, LinesUpdate("decrease", line.id,
                                                   prevQuantity(line.quantity)))
    /\ escape' = NoEscape
    /\ UNCHANGED <<shellVars, cartState, cartSent, cart, giftVars>>
    /\ navigation' = NoNavigation
    /\ UNCHANGED <<term, listingVars>>
    /\ Consumers

\* The increase button of the i-th rendered line: LinesUpdate with
\* nextQuantity.
CartLineIncrease(i) ==
    /\ i \in 1..Len(CartMainLines(ProjectedCart))
    /\ LET line == CartMainLines(ProjectedCart)[i] IN
         /\ ~IncreaseDisabled(line)
         /\ line.quantity < MaxQuantity
         /\ pending' = Submit(pending, LinesUpdate("increase", line.id,
                                                   nextQuantity(line.quantity)))
    /\ escape' = NoEscape
    /\ UNCHANGED <<shellVars, cartState, cartSent, cart, giftVars>>
    /\ navigation' = NoNavigation
    /\ UNCHANGED <<term, listingVars>>
    /\ Consumers

\* The Remove button of the i-th rendered line: its form posts LinesRemove.
CartLineRemoveButton(i) ==
    /\ i \in 1..Len(CartMainLines(ProjectedCart))
    /\ LET line == CartMainLines(ProjectedCart)[i] IN
         /\ ~RemoveDisabled(line)
         /\ pending' = Submit(pending, LinesRemove(line.id))
    /\ escape' = NoEscape
    /\ UNCHANGED <<shellVars, cartState, cartSent, cart, giftVars>>
    /\ navigation' = NoNavigation
    /\ UNCHANGED <<term, listingVars>>
    /\ Consumers

\* The cart action has answered a line form (success or failure) and the
\* revalidation is done: the form's fetcher is idle, its intent is gone.
CartLineSettled(form, id) ==
    /\ \E k \in 1..Len(pending) : pending[k].form = form /\ pending[k].id = id
    /\ pending' = Without(pending, form, id)
    /\ escape' = NoEscape
    /\ UNCHANGED <<shellVars, cartState, cartSent, cart, giftVars>>
    /\ navigation' = NoNavigation
    /\ UNCHANGED <<term, listingVars>>
    /\ Consumers

\* The layout's cart promise resolves to the cart the API returns
\* (<Await resolve={cart}>, src/unnamed/part_002:92-98).
CartResolved(c) ==
    /\ c.lines # cart.lines \/ c.isNull # cart.isNull
    /\ cart' = [c EXCEPT !.appliedGiftCards = cart.appliedGiftCards]
    /\ escape' = NoEscape
    /\ UNCHANGED <<shellVars, cartState, cartSent, pending, giftVars>>
    /\ navigation' = NoNavigation
    /\ UNCHANGED <<term, listingVars>>
    /\ Consumers

----------------------------------------------------------------------------
\* Actions of the gift card forms.

\* The Apply button: the apply form posts GiftCardCodesUpdate with the input's
\* giftCardCode and the giftCardCodes of the list; the form renders with the
\* form data.
ApplyGiftCard(code) ==
    /\ CartSummaryMounted
    /\ Len(giftLog.applied) < MaxApplies
    /\ LET fetcher == [state |-> "submitting", code |-> code,
                       codes |-> appliedGiftCardCodes]
       IN  /\ giftForms' = [giftForms EXCEPT !.apply = fetcher]
           /\ appliedGiftCardCodes' =
                 UpdateGiftCardForm(appliedGiftCardCodes, fetcher)
    /\ giftLog' = [applied |-> Append(giftLog.applied, code),
                   last |-> "apply"]
    /\ escape' = NoEscape
    /\ UNCHANGED <<shellVars, cartState, cartSent, cartViewVars>>
    /\ navigation' = NoNavigation
    /\ UNCHANGED <<term, listingVars>>
    /\ Consumers

\* CartGiftCard renders again; the apply form's children run again.
GiftCardRerender ==
    /\ CartSummaryMounted
    /\ appliedGiftCardCodes' =
          UpdateGiftCardForm(appliedGiftCardCodes, giftForms.apply)
    /\ escape' = NoEscape
    /\ UNCHANGED <<shellVars, cartState, cartSent, cartViewVars, giftForms,
                   giftLog>>
    /\ navigation' = NoNavigation
    /\ UNCHANGED <<term, listingVars>>
    /\ Consumers

\* The cart action has answered the apply form; its fetcher revalidates and
\* the form renders.
GiftCardActionDone ==
    /\ giftForms.apply.state = "submitting"
    /\ LET fetcher == [giftForms.apply EXCEPT !.state = "loading"]
       IN  /\ giftForms' = [giftForms EXCEPT !.apply = fetcher]
           /\ appliedGiftCardCodes' =
                 UpdateGiftCardForm(appliedGiftCardCodes, fetcher)
    /\ escape' = NoEscape
    /\ UNCHANGED <<shellVars, cartState, cartSent, cartViewVars, giftLog>>
    /\ navigation' = NoNavigation
    /\ UNCHANGED <<term, listingVars>>
    /\ Consumers

\* The apply form's fetcher is idle again: its form data is gone.
GiftCardRevalidated ==
    /\ giftForms.apply.state = "loading"
    /\ giftForms' = [giftForms EXCEPT !.apply = IdleGiftFetcher]
    /\ escape' = NoEscape
    /\ UNCHANGED <<shellVars, cartState, cartSent, cartViewVars,
                   appliedGiftCardCodes, giftLog>>
    /\ navigation' = NoNavigation
    /\ UNCHANGED <<term, listingVars>>
    /\ Consumers

\* The cart promise resolves to a cart with other applied gift cards.
GiftCardsResolved(g) ==
    /\ g # cart.appliedGiftCards
    /\ cart' = [cart EXCEPT !.appliedGiftCards = g]
    /\ escape' = NoEscape
    /\ UNCHANGED <<shellVars, cartState, cartSent, pending, giftVars>>
    /\ navigation' = NoNavigation
    /\ UNCHANGED <<term, listingVars>>
    /\ Consumers

\* The Remove button of the applied gift cards (shown when the cart has
\* some): its form posts GiftCardCodesUpdate with giftCardCodes: [] and no
\* giftCardCode.  The button's onSubmit={() => removeAppliedCode} is not run by
\* the click and would not call removeAppliedCode if it were.
RemoveGiftCards ==
    /\ CartSummaryMounted
    /\ cart.appliedGiftCards # {}
    /\ giftForms.remove = "idle"
    /\ giftForms' = [giftForms EXCEPT !.remove = "submitting"]
    /\ giftLog' = [giftLog EXCEPT !.last = "remove"]
    /\ escape' = NoEscape
    /\ UNCHANGED <<shellVars, cartState, cartSent, cartViewVars,
                   appliedGiftCardCodes>>
    /\ navigation' = NoNavigation
    /\ UNCHANGED <<term, listingVars>>
    /\ Consumers

\* The cart action has answered the remove form and the revalidation is done.
RemoveGiftCardsSettled ==
    /\ giftForms.remove = "submitting"
    /\ giftForms' = [giftForms EXCEPT !.remove = "idle"]
    /\ escape' = NoEscape
    /\ UNCHANGED <<shellVars, cartState, cartSent, cartViewVars,
                   appliedGiftCardCodes, giftLog>>
    /\ navigation' = NoNavigation
    /\ UNCHANGED <<term, listingVars>>
    /\ Consumers

----------------------------------------------------------------------------
\* Actions of the links that leave an overlay.

\* The layouts CartMain is rendered with: in the cart Aside, on the cart page.
CartLayouts == {"aside", "page"}

\* A link of the mobile menu panel, the Home link or an item:
\* onClick={close} (src/unnamed/part_000:76-112).
MobileMenuLink(i) ==
    /\ expanded("mobile", type)
    /\ i \in 1..Len(page.mobile.links)
    /\ navigation' = page.mobile.links[i].url
    /\ close
    /\ focus' = FocusAfter(focus, "closed")
    /\ escape' = NoEscape
    /\ UNCHANGED <<fetchers, requests, inputValue, searchForm, cartState,
                   cartSent, submitted>>
    /\ UNCHANGED <<menuVars, cartViewVars, giftVars>>
    /\ UNCHANGED <<term, listingVars>>
    /\ Consumers

\* CartEmpty's "Continue shopping" link, shown while the cart has no lines:
\* <Link to="/collections" onClick={close}> (CartMain.tsx:103-114).
CartEmptyLink(layoutProp) ==
    /\ layoutProp = "aside" => expanded("cart", type)
    /\ ~CartEmptyHidden(ProjectedCart)
    /\ navigation' = <<"/collections">>
    /\ close
    /\ focus' = FocusAfter(focus, "closed")
    /\ escape' = NoEscape
    /\ UNCHANGED <<fetchers, requests, inputValue, searchForm, cartState,
                   cartSent, submitted>>
    /\ UNCHANGED <<menuVars, cartViewVars, giftVars>>
    /\ UNCHANGED <<term, listingVars>>
    /\ Consumers

\* The product link of the i-th rendered cart line (CartLineItem.tsx:73-81).
CartLineLink(layoutProp, i) ==
    /\ layoutProp = "aside" => expanded("cart", type)
    /\ i \in 1..Len(CartMainLines(ProjectedCart))
    /\ navigation' = <<"/products/", CartMainLines(ProjectedCart)[i].merchandise>>
    /\ IF CartLineLinkCloses(layoutProp)
       THEN /\ close
            /\ focus' = FocusAfter(focus, "closed")
       ELSE UNCHANGED <<type, closeId, menu, effects, listeners, lastCall,
                        focus>>
    /\ escape' = NoEscape
    /\ UNCHANGED <<fetchers, requests, inputValue, searchForm, cartState,
                   cartSent, submitted>>
    /\ UNCHANGED <<menuVars, cartViewVars, giftVars>>
    /\ UNCHANGED <<term, listingVars>>
    /\ Consumers

----------------------------------------------------------------------------
\* Actions of the search results and of the product page.

\* A search answers with other nodes: the product lists render with them.
SearchLoaded(products, image) ==
    /\ products # catalog.products \/ image # catalog.image
    /\ catalog' = [catalog EXCEPT !.products = products, !.image = image]
    /\ listing' = RenderCatalog(catalog')
    /\ escape' = NoEscape
    /\ navigation' = NoNavigation
    /\ UNCHANGED <<shellVars, cartState, cartSent, cartViewVars, giftVars,
                   term>>
    /\ Consumers

\* The product page gets another selected variant: ProductPrice renders with
\* its price and compareAtPrice.
ProductLoaded(price, compareAtPrice) ==
    /\ price # catalog.price \/ compareAtPrice # catalog.compareAtPrice
    /\ catalog' = [catalog EXCEPT !.price = price,
                                  !.compareAtPrice = compareAtPrice]
    /\ listing' = RenderCatalog(catalog')
    /\ escape' = NoEscape
    /\ navigation' = NoNavigation
    /\ UNCHANGED <<shellVars, cartState, cartSent, cartViewVars, giftVars,
                   term>>
    /\ Consumers

----------------------------------------------------------------------------
\* The specification.

\* The overlay coordinator: the header controls, the Asides, the keyboard.
NextOverlay ==
    \/ HeaderMenuMobileToggle
    \/ SearchToggle
    \/ CartBadge
    \/ HeaderMenuLink
    \/ \E a \in Asides : AsideCloseButton(a)
    \/ \E key \in Keys, metaKey \in BOOLEAN, ctrlKey \in BOOLEAN :
          KeyDownEvent(key, metaKey, ctrlKey)
    \/ Rerender
    \/ \E m \in BOOLEAN : HeaderLoaded(m)

\* Predictive search and the search page.
NextSearch ==
    \/ \E value \in Queries : ChangeInput(value)
    \/ FocusInput
    \/ \E r \in requests : SearchResponse(r)
    \/ closeSearch
    \/ goToSearch
    \/ LeaveSearchPage
    \/ FocusPageInput

\* The add-to-cart button.
NextCart ==
    \/ \E selectedVariant \in Variants : ProductFormAddToCart(selectedVariant)
    \/ \E disabled \in DisabledProps : AddToCartButton(disabled)
    \/ CartActionDone
    \/ CartRevalidated

Next == NextOverlay \/ NextSearch \/ NextCart

\* The storefront: every component is rendered inside PageLayout's provider.
Spec == Init /\ [][Next]_vars

\* The coordinator and its consumers outside of the search panel, together with
\* a consumer that is rendered outside of every provider.
NextHook == NextOverlay \/ NextCart \/ UseAsideOutsideProvider

SpecHook == Init /\ [][NextHook]_vars

\* The cart view: the line controls, the add-to-cart button, the answers of
\* the cart action and the carts the API returns.
NextCartView ==
    \/ \E i \in 1..(Cardinality(LineIds) + 1) : CartLineDecrease(i)
    \/ \E i \in 1..(Cardinality(LineIds) + 1) : CartLineIncrease(i)
    \/ \E i \in 1..(Cardinality(LineIds) + 1) : CartLineRemoveButton(i)
    \/ \E form \in LineForms, id \in LineIds : CartLineSettled(form, id)
    \/ \E c \in Snapshots : CartResolved(c)
    \/ NextCart

SpecCart == InitCart /\ [][NextCartView]_vars

\* The gift card forms of the cart summary.
NextGiftCard ==
    \/ \E code \in GiftCardCodes : ApplyGiftCard(code)
    \/ GiftCardRerender
    \/ GiftCardActionDone
    \/ GiftCardRevalidated
    \/ \E g \in GiftCardSets : GiftCardsResolved(g)
    \/ RemoveGiftCards
    \/ RemoveGiftCardsSettled

SpecGiftCard == InitGiftCard /\ [][NextGiftCard]_vars

\* The menus of the layout, under every header, footer and domain data.
NextMenu ==
    \/ \E l \in Layouts : RootLoaderData(l)
    \/ HeaderMenuMobileToggle

SpecMenu == InitMenu /\ [][NextMenu]_vars

\* The search Aside with a query that has results and one that has none.
NextSearchAside ==
    \/ SearchToggle
    \/ \E a \in Asides : AsideCloseButton(a)
    \/ \E value \in Queries \cup {NoMatch} : ChangeInput(value)
    \/ FocusInput
    \/ \E r \in requests : SearchResponse(r)
    \/ closeSearch

SpecSearchAside == Init /\ [][NextSearchAside]_vars

\* The overlays and the links that leave them.
NextNavigation ==
    \/ HeaderMenuMobileToggle
    \/ SearchToggle
    \/ CartBadge
    \/ HeaderMenuLink
    \/ \E i \in 1..(Len(FALLBACK_HEADER_MENU) + 1) : MobileMenuLink(i)
    \/ \E layoutProp \in CartLayouts : CartEmptyLink(layoutProp)
    \/ \E layoutProp \in CartLayouts, i \in 1..Cardinality(LineIds) :
          CartLineLink(layoutProp, i)
    \/ NextSearch

SpecNavigation == InitNavigation /\ [][NextNavigation]_vars

\* The search results and the product price, under every answer of the API.
NextListing ==
    \/ \E products \in UNION { [1..n -> Products] : n \in 0..MaxProducts },
          image \in BOOLEAN : SearchLoaded(products, image)
    \/ \E price \in BOOLEAN, compareAtPrice \in BOOLEAN :
          ProductLoaded(price, compareAtPrice)

SpecListing == InitListing /\ [][NextListing]_vars

----------------------------------------------------------------------------
\* Properties of the overlay coordinator.

\* The Asides whose overlay was rendered with the `expanded` class.
ExpandedAsides == { a \in Asides : effects[a].live /\ effects[a].expanded }

\* C1: last open wins.  The active panel is the argument of the most recent
\* open() when no close() followed it and 'closed' otherwise; at most one
\* Aside is expanded, and none is when the state is 'closed'.
C1_LastOpenWins ==
    /\ lastCall.op = "open" => type = lastCall.arg
    /\ lastCall.op # "open" => type = "closed"
    /\ Cardinality(ExpandedAsides) <= 1
    /\ \A a \in ExpandedAsides : a = type
    /\ type = "closed" => ExpandedAsides = {}

\* Reached: an open('cart') that followed an open of another panel, with the
\* cart Aside expanded.
C1_Witness ==
    /\ lastCall = [op |-> "open", arg |-> "cart", again |-> FALSE]
    /\ closeId = 0
    /\ ExpandedAsides = {"cart"}

\* The steps that do not call open() or close(): predictive-search keystrokes
\* and responses, cart submissions without an onClick and their responses,
\* keydowns other than Escape (cmd+k among them), re-renders, header changes
\* and the search page's own steps.
OtherSteps ==
    \/ \E value \in Queries : ChangeInput(value)
    \/ FocusInput
    \/ \E r \in requests : SearchResponse(r)
    \/ \E disabled \in DisabledProps : AddToCartButton(disabled)
    \/ CartActionDone
    \/ CartRevalidated
    \/ \E key \in Keys \ {"Escape"}, metaKey \in BOOLEAN : KeyDown(key, metaKey)
    \/ Rerender
    \/ \E m \in BOOLEAN : HeaderLoaded(m)
    \/ LeaveSearchPage
    \/ FocusPageInput

\* C2: the overlay state is 'closed' initially, and it changes only in steps
\* that call open() or close(); every other step leaves it unchanged.
C2_OnlyOpenAndCloseChangeType ==
    /\ type = "closed"
    /\ [][OtherSteps => type' = type]_vars
    /\ [][type' # type => lastCall' # lastCall /\ lastCall'.arg = type']_vars

\* Reached: a predictive-search response has arrived and a cart submission is
\* being revalidated while the search panel is open.
C2_Witness ==
    /\ type = "search"
    /\ fetchers[FormFetcherKey].data.present
    /\ cartState = "loading"

\* The coordinator's own state: the provider and what its render commits.
overlayVars == <<type, closeId, menu, effects, listeners>>

\* C3: open and close are idempotent.  An open(p) in a state whose active
\* panel is already p, and a close() in a state that is already closed, leave
\* the coordinator's state (and every other program variable the handler does
\* not itself write) as it is.
C3_OpenCloseIdempotent ==
    /\ [][\A mode \in AsideType :
            (type = mode /\ open(mode)) => UNCHANGED overlayVars]_vars
    /\ [][(type = "closed" /\ close) => UNCHANGED overlayVars]_vars
    /\ [][(type = "search" /\ SearchToggle) => UNCHANGED progVars]_vars
    /\ [][(type = "closed" /\ HeaderMenuLink) => UNCHANGED progVars]_vars

\* Reached: open('search') directly after open('search'), with the search
\* Aside's listener attached.
C3_Witness ==
    /\ lastCall = [op |-> "open", arg |-> "search", again |-> TRUE]
    /\ type = "search"
    /\ listeners # {}

\* Reached as well: close() directly after close().
C3_WitnessClose ==
    /\ lastCall = [op |-> "close", arg |-> "closed", again |-> TRUE]
    /\ type = "closed"

\* C4: Escape-listener lifecycle.  A listener is attached for an Aside only if
\* that Aside is mounted and its type is the active panel; at most one
\* listener is attached in total; and every attached listener belongs to the
\* live effect instance of its Aside (those of earlier effect runs are gone).
C4_ListenerLifecycle ==
    /\ \A l \in listeners : /\ l.owner \in Mounted(menu)
                            /\ l.owner = type
                            /\ effects[l.owner].live
                            /\ effects[l.owner].expanded
                            /\ effects[l.owner].close = l.close
    /\ Cardinality(listeners) <= 1
    /\ \A a \in Asides : effects[a].live <=> a \in Mounted(menu)

\* Reached: the mobile Aside holds the listener of a later effect run (the
\* closure identities have wrapped around) after the panel was opened twice.
C4_Witness ==
    /\ listeners = {[owner |-> "mobile", close |-> 0]}
    /\ lastCall = [op |-> "open", arg |-> "mobile", again |-> TRUE]

\* C5: whenever a panel is active, a keydown listener that calls close() on
\* Escape is installed.
C5_ListenerWhileActive == type # "closed" => listeners # {}

\* What an Escape keydown may do to the program's state besides closing the
\* panel: nothing but blur the SearchForm's input (focus is left out here).
escapeFrame == <<type, closeId, menu, effects, listeners, fetchers, requests,
                 inputValue, searchForm, cartState, cartSent>>

\* C6 as stated: an Escape keydown while the search panel is active makes
\* exactly one close() call and closes the panel; an Escape keydown while no
\* panel is active makes no close() call and changes no state at all (panel
\* state, input focus, input value).
C6_EscapeAsStated ==
    [][\A metaKey \in BOOLEAN :
         KeyDown("Escape", metaKey) =>
            /\ type = "search" => escape'.calls = 1 /\ type' = "closed"
            /\ type = "closed" => escape'.calls = 0 /\ UNCHANGED progVars]_vars

\* C6, amended: as stated, except that an Escape keydown while no panel is
\* active still blurs the input of the search page's SearchForm when that
\* form is mounted and its input has the focus; nothing else changes.
C6_Escape ==
    /\ [][\A metaKey \in BOOLEAN :
            KeyDown("Escape", metaKey) =>
               /\ type = "search" => escape'.calls = 1 /\ type' = "closed"
               /\ type = "closed" =>
                     /\ escape'.calls = 0
                     /\ UNCHANGED escapeFrame
                     /\ focus' = IF searchForm /\ focus = "page"
                                 THEN "none" ELSE focus]_vars
    /\ [](escape.pressed =>
            /\ escape.before = "search" => escape.calls = 1 /\ type = "closed"
            /\ escape.before = "closed" => escape.calls = 0 /\ type = "closed")

\* Reached: the state right after an Escape keydown that found the search
\* panel active.
C6_Witness ==
    /\ escape = [pressed |-> TRUE, before |-> "search", calls |-> 1]
    /\ type = "closed"

\* Reached as well: the state right after an Escape keydown that found no
\* panel active and the SearchForm mounted.
C6_WitnessClosed ==
    /\ escape = [pressed |-> TRUE, before |-> "closed", calls |-> 0]
    /\ searchForm

\* C7: useAside() outside of a provider ends in an error whose message names
\* AsideProvider and yields no value; inside a provider it never raises and
\* yields the provider's current state.
C7_UseAsideFailsFast ==
    /\ ~hook.ctx.provided =>
          /\ hook.out.kind = "error"
          /\ hook.out.value = NoValue
          /\ \E i \in DOMAIN hook.out.message :
                hook.out.message[i] = "AsideProvider"
    /\ hook.ctx.provided =>
          /\ hook.out.kind = "ok"
          /\ hook.out.value = type

\* Reached: useAside() was called outside of a provider while the cart panel
\* of the storefront was open.
C7_Witness ==
    /\ ~hook.ctx.provided
    /\ hook.out.kind = "error"
    /\ type = "cart"

----------------------------------------------------------------------------
\* Properties of predictive search.

\* C8: predictive search is latest-wins.  At most one request is live, it is
\* the one submitted last, and once every response (of live and of superseded
\* requests, in any order) has arrived, the items and total handed to the view
\* are those of the query submitted last.
C8_LatestWins ==
    /\ Cardinality({ r \in requests : r.live }) <= 1
    /\ \A r \in requests : r.live => r.q = submitted.q
    /\ (requests = {} /\ submitted.q # NoQuery) =>
          /\ SearchResultsPredictive.items = PredictiveSearch(submitted.q).items
          /\ SearchResultsPredictive.total = PredictiveSearch(submitted.q).total
          /\ SearchResultsPredictive.state = "idle"

\* Reached: everything has settled, the last query was "a", and the response
\* of the superseded request came in after the response of the last one.
C8_Witness ==
    /\ requests = {}
    /\ submitted = [q |-> "a", late |-> TRUE]
    /\ SearchResultsPredictive.items = {"a"}

\* C9: a predictive-search response that arrives while the search panel is not
\* the active panel does not change the items and total given to the view.
C9_LateResponseIgnored ==
    [][(type # "search" /\ \E r \in requests : SearchResponse(r)) =>
          /\ usePredictiveSearch(fetchers').items = SearchResultsPredictive.items
          /\ usePredictiveSearch(fetchers').total = SearchResultsPredictive.total
      ]_vars

----------------------------------------------------------------------------
\* Properties of the add-to-cart button.

\* C10: a second LinesAdd submission is never started while the first one is
\* in flight (the cart fetcher has not returned to idle), whatever disabled
\* prop the button was given.
C10_OneSubmissionInFlight == cartSent <= 1

----------------------------------------------------------------------------
\* Properties of the keyboard shortcuts.

\* C14: with the SearchForm mounted, a keydown of k with the meta or the ctrl
\* modifier leaves its input focused, a keydown of Escape leaves it without
\* focus, and a keydown of k with neither modifier changes nothing.
C14_KeyboardShortcuts ==
    [][\A metaKey \in BOOLEAN, ctrlKey \in BOOLEAN :
         /\ (searchForm /\ (metaKey \/ ctrlKey)
                /\ KeyDownEvent("k", metaKey, ctrlKey)) => focus' = "page"
         /\ (searchForm /\ KeyDownEvent("Escape", metaKey, ctrlKey)) =>
               focus' # "page"
         /\ KeyDownEvent("k", FALSE, FALSE) => UNCHANGED progVars]_vars

----------------------------------------------------------------------------
\* Properties of the menus.

\* The titles of the links a component rendered, in order.
Titles(c) == [i \in 1..Len(c.links) |-> c.links[i].title]

HeaderFallbackTitles == <<"Collections", "Blog", "Policies", "About">>

FooterFallbackTitles == <<"Privacy Policy", "Refund Policy",
                          "Shipping Policy", "Terms of Service">>

\* C11: fallback menus.  With a null header menu the desktop header and the
\* mobile menu panel render the four items Collections, Blog, Policies, About;
\* with no footer menu the footer renders the four policy links; and no
\* render raises an error.
C11_FallbackMenus ==
    /\ layout.headerMenu.isNull =>
          /\ ~page.header.error
          /\ Titles(page.header) = HeaderFallbackTitles
          /\ page.mobile.rendered /\ ~page.mobile.error
          /\ Titles(page.mobile) = <<"Home">> \o HeaderFallbackTitles
    /\ (layout.footer.isNull \/ layout.footer.menu.isNull) =>
          /\ page.footer.rendered /\ ~page.footer.error
          /\ Titles(page.footer) = FooterFallbackTitles

\* The host of a link contains the commerce-platform domain, the public store
\* domain or the primary domain.
HostInternal(url, l) ==
    LET host == ParseURL(url).host IN
    \/ includes(host, <<"myshopify.com">>)
    \/ includes(host, l.publicStoreDomain)
    \/ includes(host, ParseURL(l.primaryDomainUrl).host)

\* The links of the menu items that the header, the mobile menu panel and the
\* footer rendered.
MenuLinks ==
    { page.header.links[i] : i \in 1..Len(page.header.links) }
        \cup { page.mobile.links[i] : i \in 2..Len(page.mobile.links) }
        \cup { page.footer.links[i] : i \in 1..Len(page.footer.links) }

\* C12: URL classifier.  Every rendered menu link with a host is reduced to
\* its path exactly when its host contains one of the three domains, and is
\* left unchanged otherwise; the footer marks it external (a new-tab anchor)
\* exactly in the latter case.
C12_UrlClassifier ==
    /\ \A k \in MenuLinks :
          ParseURL(k.from).ok =>
             k.url = IF HostInternal(k.from, layout)
                     THEN ParseURL(k.from).pathname ELSE k.from
    /\ \A i \in 1..Len(page.footer.links) :
          LET k == page.footer.links[i] IN
          ParseURL(k.from).ok =>
             (k.tag = "a" <=> ~HostInternal(k.from, layout))

\* C13: header and footer decide alike.  When both are given the same menu,
\* both resolve every item to the same URL, both render an internal link (a
\* path) as a NavLink and both render an external link as a new-tab anchor.
C13_HeaderFooterAlike ==
    (~layout.footer.isNull /\ layout.footer.menu = layout.headerMenu
        /\ ~layout.headerMenu.isNull) =>
       /\ page.header.error = page.footer.error
       /\ Len(page.header.links) = Len(page.footer.links)
       /\ \A i \in 1..Len(page.header.links) :
             LET h == page.header.links[i]
                 f == page.footer.links[i]
             IN  /\ h.url = f.url
                 /\ startsWithSlash(h.url) =>
                       h.tag = "NavLink" /\ f.tag = "NavLink"
                 /\ ~startsWithSlash(h.url) => h.tag = "a" /\ f.tag = "a"

----------------------------------------------------------------------------
\* Properties of the gift card forms.

\* C15: gift-card removal.  Activating the Remove control of the applied gift
\* cards empties the remembered applied-code list, and an apply submission
\* that follows it carries no previously applied code.
C15_GiftCardRemoval ==
    /\ [][RemoveGiftCards => appliedGiftCardCodes' = <<>>]_vars
    /\ [][\A code \in GiftCardCodes :
            (giftLog.last = "remove" /\ ApplyGiftCard(code)) =>
               giftForms'.apply.codes = <<>>]_vars

\* The codes submitted so far that are a code at all (if (code) ...).
SubmittedCodes == SelectSeq(giftLog.applied, LAMBDA c : c # NoCode)

\* The submission at which a formatted code was applied first.
FirstApplied(f) ==
    CHOOSE i \in 1..Len(SubmittedCodes) :
        /\ formattedCode(SubmittedCodes[i]) = f
        /\ \A j \in 1..(i - 1) : formattedCode(SubmittedCodes[j]) # f

\* C16: the applied gift-card codes are a deduplicated, case-sensitive set.
\* After any apply submissions and re-renders the list holds every submitted
\* code, with its whitespace removed, exactly once, in the order of first
\* application.
C16_AppliedCodesDeduplicated ==
    LET codes == appliedGiftCardCodes IN
    /\ \A i, j \in 1..Len(codes) : i # j => codes[i] # codes[j]
    /\ { codes[i] : i \in 1..Len(codes) } =
          { formattedCode(SubmittedCodes[i]) : i \in 1..Len(SubmittedCodes) }
    /\ \A i, j \in 1..Len(codes) :
          i < j => FirstApplied(codes[i]) < FirstApplied(codes[j])

\* Reached: "a", "a " and "A" were applied in this order, the list holds a
\* and A, and the form has rendered again with the last form data.
C16_Witness ==
    /\ giftLog.applied = << <<"a">>, <<"a", " ">>, <<"A">> >>
    /\ appliedGiftCardCodes = << <<"a">>, <<"A">> >>
    /\ giftForms.apply.state = "loading"

----------------------------------------------------------------------------
\* Properties of the cart view.

\* The rendered line with an id, when there is one.
RenderedLines(id) ==
    { i \in 1..Len(CartMainLines(ProjectedCart)) :
        CartMainLines(ProjectedCart)[i].id = id }

\* C17: quantity controls are locked while a line is optimistic.  Every
\* rendered line with isOptimistic set has its decrease, increase and remove
\* controls disabled, and no step submits a LinesUpdate or LinesRemove intent
\* for a line that is rendered as optimistic.
C17_OptimisticLinesLocked ==
    /\ [](\A i \in 1..Len(CartMainLines(ProjectedCart)) :
            LET line == CartMainLines(ProjectedCart)[i] IN
            line.isOptimistic =>
               /\ DecreaseDisabled(line)
               /\ IncreaseDisabled(line)
               /\ RemoveDisabled(line))
    /\ [][\A k \in 1..Len(pending') :
            (/\ pending'[k].action \in {"LinesUpdate", "LinesRemove"}
             /\ \A h \in 1..Len(pending) : pending[h] # pending'[k]) =>
               \A i \in RenderedLines(pending'[k].id) :
                  ~CartMainLines(ProjectedCart)[i].isOptimistic]_vars

\* Reached: line L1 is rendered as optimistic because its decrease form is
\* in flight, next to a line that is not.
C17_Witness ==
    /\ \E k \in 1..Len(pending) :
          pending[k].form = "decrease" /\ pending[k].id = "L1"
    /\ Len(CartMainLines(ProjectedCart)) = 2
    /\ CartMainLines(ProjectedCart)[1].isOptimistic
    /\ ~CartMainLines(ProjectedCart)[2].isOptimistic

\* The quantities a line can be displayed with, and 0.
DisplayedQuantities == 0..(MaxQuantity + 1)

\* C18: no quantity is ever negative.  Every line of the projected cart has
\* a quantity >= 0, every LinesUpdate intent in flight has a quantity >= 0,
\* the decrease form's quantity is >= 0 for every displayed quantity, and
\* the projection of any further UpdateLine, of a negative quantity too, has
\* no line with a negative quantity.
C18_NoNegativeQuantity ==
    /\ \A i \in 1..Len(CartMainLines(ProjectedCart)) :
          /\ CartMainLines(ProjectedCart)[i].quantity >= 0
          /\ prevQuantity(CartMainLines(ProjectedCart)[i].quantity) >= 0
    /\ \A k \in 1..Len(pending) :
          pending[k].action = "LinesUpdate" => pending[k].quantity >= 0
    /\ \A q \in DisplayedQuantities : prevQuantity(q) >= 0
    /\ \A id \in LineIds, q \in -1..MaxQuantity :
          LET p == project(cart, Append(pending,
                                        LinesUpdate("decrease", id, q)))
          IN  /\ p.totalQuantity >= 0
              /\ \A i \in 1..Len(p.lines) : p.lines[i].quantity >= 0

\* Reached: the decrease form of L1 is in flight with quantity 1, and the
\* projected cart shows L1 with that quantity.
C18_Witness ==
    /\ \E k \in 1..Len(pending) :
          pending[k] = LinesUpdate("decrease", "L1", 1)
    /\ \E i \in RenderedLines("L1") :
          CartMainLines(ProjectedCart)[i].quantity = 1

\* C19: project(snapshot, [UpdateLine{id, 0}]) removes the line id, its
\* totalQuantity is the snapshot's minus that line's quantity, and all other
\* lines are unchanged; CartMain and the cart badge render just that.
C19_UpdateToZeroRemoves ==
    \A n \in 1..Len(cart.lines) :
       LET id == cart.lines[n].id
           view == CartView(useOptimisticCart(
                       cart, <<LinesUpdate("decrease", id, 0)>>))
       IN  /\ \A i \in 1..Len(view.lines) : view.lines[i].id # id
           /\ view.count = cart.totalQuantity - cart.lines[n].quantity
           /\ view.lines = SelectSeq(cart.lines, LAMBDA line : line.id # id)

\* Reached: a confirmed cart with L1 of quantity 2 and L2 of quantity 1.
C19_Witness ==
    /\ cart.lines = <<CartLine("L1", 2, FALSE), CartLine("L2", 1, FALSE)>>
    /\ cart.totalQuantity = 3

\* C20: with no pending intent the projection is the identity.  For every
\* confirmed cart, the absent one too, the lines, quantities, gift cards and
\* total rendered of project(snapshot, []) are those of the snapshot.
C20_EmptyQueueIdentity ==
    /\ CartView(useOptimisticCart(cart, <<>>)) =
          [lines |-> cart.lines, count |-> cart.totalQuantity,
           giftCards |-> cart.appliedGiftCards]
    /\ ~useOptimisticCart(cart, <<>>).isOptimistic
    /\ pending = <<>> =>
          /\ CartMainLines(ProjectedCart) = cart.lines
          /\ CartBadgeCount(ProjectedCart) = cart.totalQuantity

\* Reached: the queue is empty again after an intent was answered, and the
\* confirmed cart has two lines.
C20_Witness ==
    /\ pending = <<>>
    /\ Len(cart.lines) = 2
    /\ cartSent = 0 /\ lastCall.op = "open"

\* Reached as well: the absent cart with an empty queue.
C20_WitnessNull ==
    /\ pending = <<>>
    /\ cart.isNull
    /\ lastCall.op = "open"

\* The merchandise an AddLine can name: that of the lines, and one more.
AddableMerchandise == {Merchandise[id] : id \in LineIds} \cup {"soldout"}

\* The lines of a list that carry a merchandise.
LinesOf(lines, merchandise) ==
    SelectSeq(lines, LAMBDA line : line.merchandise = merchandise)

\* C21: AddLine merges by merchandise identity.  For every confirmed cart and
\* every merchandise m, the cart rendered of project(snapshot, [AddLine{m, a},
\* AddLine{m, b}]) has exactly one line for m, of the quantity m had in the
\* snapshot (0 if it had no line) plus a + b; the other lines are those of the
\* snapshot, and the total grows by a + b.
C21_AddLineMerges ==
    \A m \in AddableMerchandise, a, b \in 1..(MaxQuantity + 1) :
       LET prior == SumQuantities(LinesOf(cart.lines, m))
           view == CartView(useOptimisticCart(
                       cart, <<LinesAdd(m, a), LinesAdd(m, b)>>))
           merged == LinesOf(view.lines, m)
       IN  /\ Len(merged) = 1
           /\ merged[1].quantity = prior + a + b
           /\ SelectSeq(view.lines, LAMBDA line : line.merchandise # m) =
                 SelectSeq(cart.lines, LAMBDA line : line.merchandise # m)
           /\ view.count = cart.totalQuantity + a + b

\* Reached: the add-to-cart form is in flight for the merchandise of the
\* confirmed line L1, and the cart renders one line for it, one more in
\* quantity, next to L2.
C21_Witness ==
    /\ pending = <<LinesAdd("available", 1)>>
    /\ Len(cart.lines) = 2
    /\ Len(LinesOf(CartMainLines(ProjectedCart), "available")) = 1
    /\ LinesOf(CartMainLines(ProjectedCart), "available")[1].quantity =
          cart.lines[1].quantity + 1

\* A queue without its k-th intent.
QueueWithout(intents, k) ==
    SubSeq(intents, 1, k - 1) \o SubSeq(intents, k + 1, Len(intents))

\* C22: rollback on failure.  A step that takes an intent off the queue and
\* leaves the confirmed cart as it was (the mutation failed) takes off that one
\* intent only, and the cart rendered next is that of project(snapshot, queue
\* without that intent), computed from the confirmed cart; when it was the only
\* intent, the lines and the total of the confirmed cart are rendered, and
\* nothing is optimistic.
C22_RollbackOnFailure ==
    [][(Len(pending') < Len(pending) /\ cart' = cart) =>
         /\ \E k \in 1..Len(pending) :
               /\ pending' = QueueWithout(pending, k)
               /\ CartView(ProjectedCart') =
                     CartView(project(cart, QueueWithout(pending, k)))
               /\ ProjectedCart'.isOptimistic = (Len(pending) > 1)
         /\ pending' = <<>> =>
               /\ CartMainLines(ProjectedCart') = cart.lines
               /\ CartBadgeCount(ProjectedCart') = cart.totalQuantity]_vars

\* Reached: the add-to-cart form was submitted and has been answered while
\* the decrease form of L1 is still in flight; the confirmed cart has its two
\* lines, and the cart renders them with the decrease only.
C22_Witness ==
    /\ lastCall.op = "open" /\ cartState = "idle"
    /\ pending = <<LinesUpdate("decrease", "L1", 1)>>
    /\ cart.lines = <<CartLine("L1", 2, FALSE), CartLine("L2", 1, FALSE)>>
    /\ CartMainLines(ProjectedCart) =
          <<CartLine("L1", 1, TRUE), CartLine("L2", 1, FALSE)>>

\* The lines after the first k pending intents, one after the other, from the
\* confirmed cart.
RECURSIVE LinesAfter(_)
LinesAfter(k) ==
    IF k = 0 THEN cart.lines
    ELSE ApplyIntent(LinesAfter(k - 1), pending[k])

\* C23: ordering under out-of-order responses.  The rendered lines are always
\* those of the confirmed cart with the pending intents applied one after the
\* other in the order of the queue, and their total; a submission puts its
\* intent at the end of the queue (or in the place of the intent the same form
\* still has in flight); an answer, to whichever form it is, takes one intent
\* off and leaves the others in their order; and a new confirmed cart leaves
\* the queue as it is, so that it is rendered with every intent still pending.
C23_SubmissionOrder ==
    /\ [](/\ CartMainLines(ProjectedCart) = LinesAfter(Len(pending))
          /\ CartBadgeCount(ProjectedCart) =
                SumQuantities(LinesAfter(Len(pending))))
    /\ [][/\ Len(pending') > Len(pending) =>
                /\ Len(pending') = Len(pending) + 1
                /\ SubSeq(pending', 1, Len(pending)) = pending
          /\ Len(pending') = Len(pending) =>
                \A k \in 1..Len(pending) :
                   /\ pending'[k].form = pending[k].form
                   /\ pending'[k].id = pending[k].id
          /\ Len(pending') < Len(pending) =>
                \E k \in 1..Len(pending) : pending' = QueueWithout(pending, k)
          /\ cart' # cart =>
                /\ pending' = pending
                /\ CartView(ProjectedCart') = CartView(project(cart', pending))
       ]_vars

\* Reached: the decrease form of L1 was submitted before the add-to-cart form
\* of the same merchandise, and L1 of quantity 2 is rendered with quantity 2:
\* decreased to 1, then one added.  In the other order it would be 1.
C23_Witness ==
    /\ pending = <<LinesUpdate("decrease", "L1", 1), LinesAdd("available", 1)>>
    /\ cart.lines = <<CartLine("L1", 2, FALSE)>>
    /\ CartMainLines(ProjectedCart) = <<CartLine("L1", 2, TRUE)>>

\* Reached as well: the form submitted last was answered first, and a new
\* confirmed cart has arrived while the decrease form is still in flight.
C23_WitnessOutOfOrder ==
    /\ lastCall.op = "open" /\ cartState = "idle"
    /\ pending = <<LinesUpdate("decrease", "L1", 1)>>
    /\ cart.lines = <<CartLine("L1", 1, FALSE), CartLine("L2", 2, FALSE)>>
    /\ CartMainLines(ProjectedCart) =
          <<CartLine("L1", 1, TRUE), CartLine("L2", 2, FALSE)>>

----------------------------------------------------------------------------
\* Properties of the search results and prices.

\* An element is there, a blank placeholder, or left out.
Elements == {"Image", "Money", "blank", "omitted"}

\* C24: missing image or price data never produces an error.  Whatever the
\* nodes of the search answer (products without variants among them) and
\* whatever the price and compareAtPrice of the product page, no component
\* ends in an error, and every image and price is rendered, blank or omitted.
C24_MissingDataNeverErrors ==
    /\ ~listing.predictive.error
    /\ ~listing.regular.error
    /\ ~listing.productPrice.error
    /\ \A i \in 1..Len(listing.predictive.items) :
          /\ listing.predictive.items[i].image \in Elements
          /\ listing.predictive.items[i].price \in Elements
    /\ \A i \in 1..Len(listing.regular.items) :
          /\ listing.regular.items[i].image \in Elements
          /\ listing.regular.items[i].price \in Elements
    /\ listing.image \in Elements
    /\ listing.productPrice.price \in Elements
    /\ listing.productPrice.compareAtPrice \in Elements

----------------------------------------------------------------------------
\* Properties of the predictive search view.

\* C25: predictive-search view state.  The term is the q of the most recent
\* fetchResults call (the empty string before the first), and changes only in
\* a step after which the fetcher is loading with that q; before an answer has
\* arrived the items are none and the total is 0; the view is "Loading..."
\* exactly when the fetcher is loading and the term is not empty, otherwise the
\* no-results message exactly when the total is 0 and the term is not empty,
\* and nothing when the total is 0 and the term is empty.
C25_PredictiveSearchView ==
    /\ [](LET v == SearchResultsPredictive
              view == SearchAsideView(v, term)
              loading == fetchers[ResultsFetcherKey].state = "loading"
          IN  /\ term = IF submitted.q = NoQuery THEN "" ELSE submitted.q
              /\ loading => term = fetchers[ResultsFetcherKey].q
              /\ ~fetchers[ResultsFetcherKey].data.present =>
                    v.items = {} /\ v.total = 0
              /\ view = "Loading..." <=> (loading /\ term # "")
              /\ view # "Loading..." =>
                    /\ view = "No results found" <=>
                          (v.total = 0 /\ term # "")
                    /\ (v.total = 0 /\ term = "") => view = "nothing")
    /\ [][term' # term =>
            /\ fetchers'[ResultsFetcherKey].state = "loading"
            /\ term' = fetchers'[ResultsFetcherKey].q]_vars

\* Reached: the answer to a query without results has arrived; the view is
\* the no-results message for that term.
C25_Witness ==
    /\ term = NoMatch
    /\ fetchers[ResultsFetcherKey].state = "idle"
    /\ fetchers[ResultsFetcherKey].data.present
    /\ SearchAsideView(SearchResultsPredictive, term) = "No results found"

\* Reached as well: a query is loading while the results of the previous one
\* are still there.
C25_WitnessLoading ==
    /\ term = "a"
    /\ fetchers[ResultsFetcherKey].state = "loading"
    /\ SearchResultsPredictive.total = 0
    /\ fetchers[ResultsFetcherKey].data.present
    /\ SearchAsideView(SearchResultsPredictive, term) = "Loading..."

\* And: the empty query is loading, and nothing is shown.
C25_WitnessEmptyTerm ==
    /\ term = ""
    /\ fetchers[ResultsFetcherKey].state = "loading"
    /\ SearchAsideView(SearchResultsPredictive, term) = "nothing"

----------------------------------------------------------------------------
\* Properties of the links that leave an overlay.

\* C26: navigation out of an overlay closes it.  After a step of a header
\* menu link, a mobile menu link, the cart-empty link, a predictive search
\* result link or goToSearch the panel is closed; goToSearch navigates to
\* /search?q=<value> with a value in the input and to /search without; the
\* product link of a cart line closes the panel in the 'aside' layout and
\* leaves it as it is in the 'page' layout.
C26_NavigationClosesOverlay ==
    [][/\ HeaderMenuLink => type' = "closed"
       /\ \A i \in 1..(Len(FALLBACK_HEADER_MENU) + 1) :
             MobileMenuLink(i) => type' = "closed"
       /\ \A layoutProp \in CartLayouts :
             CartEmptyLink(layoutProp) => type' = "closed"
       /\ closeSearch => type' = "closed"
       /\ goToSearch =>
             /\ type' = "closed"
             /\ navigation' = IF inputValue # ""
                              THEN <<"/search", "?q=", inputValue>>
                              ELSE <<"/search">>
       /\ \A i \in 1..Cardinality(LineIds) :
             /\ CartLineLink("aside", i) => type' = "closed"
             /\ CartLineLink("page", i) => type' = type
       /\ navigation' # NoNavigation =>
             \/ type' = "closed"
             \/ /\ type' = type
                /\ navigation'[1] = "/products/"
                /\ lastCall' = lastCall
      ]_vars

\* Reached: the product link of a line of the cart page was activated while
\* the search panel was open, and the panel is still open.
C26_Witness ==
    /\ navigation = <<"/products/", "available">>
    /\ type = "search"
    /\ lastCall.op = "open"

\* Reached as well: the same link in the cart Aside has closed the panel.
C26_WitnessAside ==
    /\ navigation = <<"/products/", "available">>
    /\ type = "closed"
    /\ lastCall = [op |-> "close", arg |-> "closed", again |-> FALSE]
    /\ effects["cart"].live /\ ~effects["cart"].expanded

\* And: goToSearch with a value in the input has closed the search panel.
C26_WitnessGoToSearch ==
    /\ navigation = <<"/search", "?q=", "a">>
    /\ inputValue = "a"
    /\ searchForm
    /\ type = "closed"

----------------------------------------------------------------------------
\* Properties of the product form.

----------------------------------------------------------------------------
\* Properties of the quantity controls.

\* The intents of pending' that the step has submitted.
Submitted(k) == \A h \in 1..Len(pending) : pending[h] # pending'[k]

\* C28: the quantity controls never submit an UpdateLine with quantity 0.
\* The decrease control is disabled at every displayed quantity <= 1; every
\* LinesUpdate intent in flight has a quantity >= 1; the one a decrease
\* control submits has the displayed quantity minus 1, the one an increase
\* control submits the displayed quantity plus 1; and a line of the confirmed
\* cart that is not rendered has a LinesRemove intent of the Remove control in
\* flight.
C28_NoUpdateToZero ==
    /\ [](/\ \A q \in DisplayedQuantities, o \in BOOLEAN :
               q <= 1 => DecreaseDisabled(CartLine("L1", q, o))
          /\ \A k \in 1..Len(pending) :
               pending[k].action = "LinesUpdate" => pending[k].quantity >= 1
          /\ \A n \in 1..Len(cart.lines) :
               RenderedLines(cart.lines[n].id) = {} =>
                  \E k \in 1..Len(pending) :
                     pending[k] = LinesRemove(cart.lines[n].id))
    /\ [][\A k \in 1..Len(pending') :
            (pending'[k].action = "LinesUpdate" /\ Submitted(k)) =>
               \E i \in RenderedLines(pending'[k].id) :
                  LET displayed == CartMainLines(ProjectedCart)[i].quantity
                  IN  /\ pending'[k].form = "decrease" =>
                            /\ pending'[k].quantity = displayed - 1
                            /\ displayed - 1 >= 1
                      /\ pending'[k].form = "increase" =>
                            pending'[k].quantity = displayed + 1]_vars

\* Reached: the increase form of L1 is in flight with the displayed quantity
\* plus 1, and L2 is not rendered while its Remove form is in flight.
C28_Witness ==
    /\ pending = <<LinesUpdate("increase", "L1", 2), LinesRemove("L2")>>
    /\ cart.lines = <<CartLine("L1", 1, FALSE), CartLine("L2", 1, FALSE)>>
    /\ CartMainLines(ProjectedCart) = <<CartLine("L1", 2, TRUE)>>

----------------------------------------------------------------------------
\* Properties of the cart view's parts.

\* C29: cart view consistency.  The empty-cart message is visible exactly
\* when the projected cart has no lines, the cart summary exactly when the
\* projected totalQuantity is > 0, and the two are never visible together;
\* so it is for the cart rendered now and for the projection of every further
\* intent a control or the add-to-cart form can submit.
C29_CartViewConsistent ==
    /\ ~CartEmptyHidden(ProjectedCart) <=> ProjectedCart.lines = <<>>
    /\ cartHasItems(ProjectedCart) <=> ProjectedCart.totalQuantity > 0
    /\ ~(~CartEmptyHidden(ProjectedCart) /\ cartHasItems(ProjectedCart))
    /\ \A intent \in
          {LinesAdd(m, 1) : m \in AddableMerchandise}
            \cup {LinesRemove(id) : id \in LineIds}
            \cup {LinesUpdate(f, id, q) : f \in {"decrease", "increase"},
                                         id \in LineIds,
                                         q \in DisplayedQuantities} :
          LET c == useOptimisticCart(cart, Append(pending, intent))
          IN  ~(~CartEmptyHidden(c) /\ cartHasItems(c))

\* Reached: the only line of the confirmed cart is not rendered while its
\* Remove form is in flight; the empty-cart message is visible and the
\* summary is not.
C29_Witness ==
    /\ cart.lines = <<CartLine("L1", 2, FALSE)>>
    /\ pending = <<LinesRemove("L1")>>
    /\ ~CartEmptyHidden(ProjectedCart)
    /\ ~cartHasItems(ProjectedCart)

\* Reached as well: no confirmed cart, the add-to-cart form in flight; the
\* summary is visible and the empty-cart message is not.
C29_WitnessAdded ==
    /\ cart.isNull
    /\ pending = <<LinesAdd("available", 1)>>
    /\ CartEmptyHidden(ProjectedCart)
    /\ cartHasItems(ProjectedCart)

----------------------------------------------------------------------------
\* Properties of the resolution of menu links.

\* C30: menu link resolution never ends in an error.  Whatever the items of
\* the header and footer menus (relative urls, the fallback menus, items
\* without a url) and whatever the public store domain and the primary domain
\* url (an empty public store domain too), the header menu, the mobile menu
\* panel and the footer menu render without raising.
C30_MenuResolutionNeverRaises ==
    /\ ~page.header.error
    /\ ~page.mobile.error
    /\ ~page.footer.error

====
